---- MODULE Spec2Model ----
(***************************************************************************)
(* Binary matching queue and sponsor-qualification payout of the Home      *)
(* component (src/Home.tsx).                                               *)
(*                                                                         *)
(* State is the React state of the component: binaryData (matchingQueue,   *)
(* matchedPairs, pendingPairs, currentUserPosition), sponsorData,          *)
(* notifications, transactionsData and the ref prevIsQualifiedRef.         *)
(* Handlers are one action each.  A useEffect is one action; which effects *)
(* are due after a commit is kept in effectQueue (declaration order), the  *)
(* dependencies changed by the effects of the running commit in dirty.     *)
(* Click handlers are discrete events: React flushes the effects of the    *)
(* commit they cause before the next event is dispatched, so handlers are  *)
(* enabled only when no effect is due.  A state updater is applied once.   *)
(*                                                                         *)
(* src/unnamed/part_000 holds the same handlers and the same effect over a *)
(* per-account record (Dashboard); there the local participant's id is the *)
(* account id, which no queue entrant carries.                             *)
(*                                                                         *)
(* Entrant ids 'bq_<n>' are written n.  Of a pair only pairNumber, amount  *)
(* and status are kept (leftUsers, rightUsers and date are display data).  *)
(* Of a notification only type and the amount its message carries, plus a  *)
(* tag for the message template.                                           *)
(***************************************************************************)
EXTENDS Integers, Sequences, FiniteSets, TLC

VARIABLES matchingQueue, matchedPairs, pendingPairs, currentUserPosition,
          sponsorData, notifications, transactionsData,
          prevIsQualifiedRef, effectQueue, dirty, last, hist,
          paymentsData, pendingConfirmations, disputes, allUsers,
          systemConfig, modalPayment, timeouts, now, sweepPhase,
          payLast, payHist, component, db, currentUserId

\* the payment state of the component, besides the ledger (transactionsData)
\* and the notifications it shares with the binary code
payVars == <<paymentsData, pendingConfirmations, disputes, allUsers,
             systemConfig, modalPayment, timeouts, now, sweepPhase,
             payLast, payHist, component, db, currentUserId>>

\* the binary state the payment handlers never write
binVars == <<matchingQueue, matchedPairs, pendingPairs, currentUserPosition,
             sponsorData, prevIsQualifiedRef, effectQueue, dirty, last, hist,
             component, db, currentUserId>>

vars == <<matchingQueue, matchedPairs, pendingPairs, currentUserPosition,
          sponsorData, notifications, transactionsData,
          prevIsQualifiedRef, effectQueue, dirty, last, hist,
          paymentsData, pendingConfirmations, disputes, allUsers,
          systemConfig, modalPayment, timeouts, now, sweepPhase,
          payLast, payHist, component, db, currentUserId>>

----------------------------------------------------------------------------
(* Bounds *)

\* longest generated initial queue (besides the shipped 15-entrant queue)
MaxQueue == 5

\* the clock stops at this hour
MaxTime == 3

\* edits of the inputs of the payment cards
MaxEdits == 2

\* submissions of a payment through the submit dialog
MaxSubmissions == 1

\* runs of the crypto auto-verification
MaxVerifications == 1

\* runs of the crypto auto-verification, and edits of the payment cards,
\* while the timers of the Dashboard are studied
MaxTimers == 2
MaxTimerEdits == 3

\* longest payment timer an administrator saves, in shipped timer durations
MaxTimerDuration == 2

\* runs of the binary queue in one account
MaxMatches == 2

\* how many times the 'no qualified users' report may pile up
MaxNoQualified == 2

----------------------------------------------------------------------------
(* Program constants *)

\* the local participant's queue entry, 'bq_5'
CurrentUserQueueId == 5

\* initialSystemConfig.binaryAmount
binaryAmount == 1000

----------------------------------------------------------------------------
(* JavaScript array helpers, 0-based as in the source *)

Min(a, b) == IF a < b THEN a ELSE b

Max(a, b) == IF a > b THEN a ELSE b

\* Array.prototype.slice(start, end): negative indices count from the end
JsSliceIndex(len, i) == IF i < 0 THEN Max(len + i, 0) ELSE Min(i, len)

JsSlice(s, start, end) ==
    LET lo == JsSliceIndex(Len(s), start)
        hi == JsSliceIndex(Len(s), end)
    IN  IF lo >= hi THEN <<>> ELSE SubSeq(s, lo + 1, hi)

\* scans from the back: the last qualified entrant
FindQualifiedIndex_Last(queue) ==
    IF \E i \in 1..Len(queue) : queue[i].isQualified
    THEN (CHOOSE i \in 1..Len(queue) :
             /\ queue[i].isQualified
             /\ \A j \in (i + 1)..Len(queue) : ~queue[j].isQualified) - 1
    ELSE -1

\* queue.findIndex(user => user.isQualified): 0-based, -1 when none
FindQualifiedIndex(queue) ==
    IF \E i \in 1..Len(queue) : queue[i].isQualified
    THEN (CHOOSE i \in 1..Len(queue) :
             /\ queue[i].isQualified
             /\ \A j \in 1..(i - 1) : ~queue[j].isQualified) - 1
    ELSE -1

\* queue.findIndex(u => u.id === id) + 1
PositionOfId(queue, id) ==
    IF \E i \in 1..Len(queue) : queue[i].id = id
    THEN CHOOSE i \in 1..Len(queue) :
             /\ queue[i].id = id
             /\ \A j \in 1..(i - 1) : queue[j].id # id
    ELSE 0

RECURSIVE SumAmounts(_)
\* pairs.reduce((sum, p) => sum + p.amount, 0)
SumAmounts(pairs) ==
    IF pairs = <<>> THEN 0 ELSE Head(pairs).amount + SumAmounts(Tail(pairs))

----------------------------------------------------------------------------
(* Derived values of a render *)

HasPaidDirect(directs, side) ==
    \E i \in 1..Len(directs) :
        directs[i].position = side /\ directs[i].status = "paid"

QualifiedBy(directs) == HasPaidDirect(directs, "left") /\ HasPaidDirect(directs, "right")

hasLeftSponsor == HasPaidDirect(sponsorData, "left")

hasRightSponsor == HasPaidDirect(sponsorData, "right")

isQualifiedForBinary == hasLeftSponsor /\ hasRightSponsor

----------------------------------------------------------------------------
(* Initial data *)

Entrant(id, q, pos) == [id |-> id, isQualified |-> q, queuePosition |-> pos]

\* initialBinaryData.matchingQueue, re-numbered by the trailing .map
initialMatchingQueue ==
    LET ids  == <<1, 2, 3, 4, 6, 7, 8, 9, 10, 11, 12, 5, 13, 14, 15>>
        qual == <<FALSE, TRUE, TRUE, FALSE, TRUE, TRUE, FALSE, TRUE, FALSE,
                  TRUE, TRUE, FALSE, TRUE, FALSE, TRUE>>
    IN  [i \in 1..15 |-> Entrant(ids[i], qual[i], i)]

initialMatchedPairs == <<[pairNumber |-> 1, amount |-> 1000, status |-> "paid"]>>

initialPendingPairs == <<[pairNumber |-> 2, amount |-> 1000, status |-> "pending"]>>

initialSponsorData ==
    << [position |-> "right", status |-> "pending"],
       [position |-> "left",  status |-> "paid"],
       [position |-> "left",  status |-> "pending"] >>

Notification(type, msg, amount) == [type |-> type, msg |-> msg, amount |-> amount]

initialNotificationsData ==
    << Notification("payment_received", "initial", 1000),
       Notification("referral", "initial", 0),
       Notification("income", "initial", 500),
       Notification("system", "initial", 0) >>

Transaction(type, details, amount, status) ==
    [type |-> type, details |-> details, amount |-> amount, status |-> status]

initialTransactionsData ==
    << Transaction("matrix", 0, 500, "paid"),
       Transaction("sponsor", 0, 500, "paid"),
       Transaction("binary", 0, 1000, "paid"),
       Transaction("binary", 0, 1000, "paid"),
       Transaction("sponsor", 0, 500, "paid"),
       Transaction("matrix", 0, 500, "paid"),
       Transaction("matrix", 0, 500, "paid"),
       Transaction("binary", 0, 500, "paid") >>

\* Besides the shipped queue, every short queue of the shape the component
\* keeps (and restores from its saved state): distinct ids, the other
\* entrants in id order, the local entrant (unqualified, as the sponsor data
\* start unqualified) at any place or absent, queuePosition = index + 1.
OtherId(i) == IF i < CurrentUserQueueId THEN i ELSE i + 1

GeneratedQueues ==
    UNION { UNION { { [i \in 1..n |->
                        IF i = me
                        THEN Entrant(CurrentUserQueueId, FALSE, i)
                        ELSE Entrant(OtherId(IF me # 0 /\ i > me THEN i - 1 ELSE i),
                                     f[i], i)]
                      : f \in [1..n -> BOOLEAN] }
                    : me \in 0..n }
            : n \in 0..MaxQueue }

InitialQueues == {initialMatchingQueue} \cup GeneratedQueues

----------------------------------------------------------------------------
(* Effect scheduling *)

\* the effects of the component that touch this state, in declaration order,
\* with their dependency lists; the Dashboard has no effect that copies the
\* flag into the queue
EffectsFor(changed) ==
    (IF changed \cap {"isQualifiedForBinary", "pendingPairs"} # {}
     THEN <<"qualification">> ELSE <<>>)
    \o
    (IF "isQualifiedForBinary" \in changed /\ component = "Home"
     THEN <<"queueSync">> ELSE <<>>)

\* after an effect ran: the rest of this commit's effects, or, when it was
\* the last one, the effects of the commit its state updates cause
NextEffects(newDirty) ==
    IF Len(effectQueue) > 1 THEN Tail(effectQueue) ELSE EffectsFor(newDirty)

NextDirty(newDirty) ==
    IF Len(effectQueue) > 1 THEN newDirty ELSE {}

Idle == effectQueue = <<>>

NoEntrant == Entrant(0, FALSE, 0)

\* history of the last step: the state it started from and, for a queue
\* run, the index and entrant the code picked
Snapshot(op, k, w) ==
    [op |-> op,
     matchingQueue |-> matchingQueue,
     matchedPairs |-> matchedPairs,
     pendingPairs |-> pendingPairs,
     currentUserPosition |-> currentUserPosition,
     notifications |-> notifications,
     transactionsData |-> transactionsData,
     wasQualified |-> isQualifiedForBinary,
     prevRef |-> prevIsQualifiedRef,
     winnerIndex |-> k,
     winner |-> w]

----------------------------------------------------------------------------
(* Payment lifecycle: data.                                                *)
(*                                                                         *)
(* Time is counted in timer durations (two hours, the value of            *)
(* PAYMENT_TIMER_DURATION and of the shipped paymentTimerDuration); the    *)
(* component starts at StartTime.  Of the                                  *)
(* eight generated payments one of each kind is kept: pay_ref (a payment   *)
(* that is neither upline nor admin, as pay_bin), pay_up1 (an upline       *)
(* payment, as pay_up2..5) and pay_adm.  A transaction id is "" or "tx",   *)
(* a proof is NoProof (null) or "proof".  Confirmation ids 'conf_<n>' are  *)
(* written n; an id made from Date.now() is the next unused number.        *)

StartTime == 1

\* PAYMENT_TIMER_DURATION, and paymentTimerDuration of the initial system
\* configuration of the Dashboard: one unit of time
PAYMENT_TIMER_DURATION == 1

referralAmount == 1000

uplineAmount == 500

adminFeeAmount == 500

NoProof == "null"

UplineTypes == {"upline1", "upline2", "upline3", "upline4", "upline5"}

\* payment.type.startsWith('upline')
isMatrixPayment(payment) == payment.type \in UplineTypes

Payment(id, title, type, amount, receiverId) ==
    [id |-> id, title |-> title, type |-> type, amount |-> amount,
     status |-> "unpaid", transactionId |-> "", proof |-> NoProof,
     assignedTimestamp |-> StartTime, receiverId |-> receiverId]

generateInitialPayments ==
    << Payment("pay_ref", "1. Referral", "referral", referralAmount, "usr_sponsor"),
       Payment("pay_up1", "3. Upline 1", "upline1", uplineAmount, "usr_02"),
       Payment("pay_adm", "8. Admin Fee", "admin", adminFeeAmount, "system_admin") >>

PaymentIds == {"pay_ref", "pay_up1", "pay_adm"}

Confirmation(id, payment, time) ==
    [id |-> id, paymentId |-> payment.id, amount |-> payment.amount,
     transactionId |-> payment.transactionId, proof |-> payment.proof,
     type |-> payment.title, submittedTimestamp |-> time,
     receiverId |-> payment.receiverId]

initialPendingConfirmationsData ==
    << [id |-> 1, paymentId |-> "pay_ref", amount |-> 1000,
        transactionId |-> "tx", proof |-> "proof", type |-> "Referral Payment",
        submittedTimestamp |-> StartTime, receiverId |-> "usr_sponsor"],
       [id |-> 2, paymentId |-> "pay_up1", amount |-> 500,
        transactionId |-> "tx", proof |-> "proof", type |-> "Upline Level 1",
        submittedTimestamp |-> StartTime, receiverId |-> "usr_02"] >>

\* the receivers among adminUsersData that a kept payment names
adminUsersData == [u \in {"usr_01", "usr_02"} |-> "active"]

initialSystemConfig ==
    [paymentTimerDuration |-> PAYMENT_TIMER_DURATION,
     enableCryptoVerification |-> FALSE,
     bscScanApiKey |-> "",
     cryptoReceivingAddress |-> ""]

\* confirmation.type.split(' ')[0].toLowerCase()
FirstWordLower(type) ==
    CASE type = "Referral Payment" -> "referral"
      [] type = "Upline Level 1"   -> "upline"
      [] type = "1. Referral"      -> "1."
      [] type = "3. Upline 1"      -> "3."
      [] type = "8. Admin Fee"     -> "8."
      [] OTHER                     -> ""

NoPayment == [id |-> "none"]

\* Array.prototype.findIndex over the ids of a list; 0 when there is none
IndexOfId(list, id) ==
    IF \E i \in 1..Len(list) : list[i].id = id
    THEN CHOOSE i \in 1..Len(list) :
            list[i].id = id /\ \A j \in 1..(i - 1) : list[j].id # id
    ELSE 0

\* the last payment step: the operation, the payment and the confirmation
\* it was about
PaySnapshot(op, pid, cid) == [op |-> op, pid |-> pid, cid |-> cid]

\* the payment state of the Home component after construction
\* the slices of generateNewUserData: Math.floor(Math.random() * length)
randomSliceLength == 1

\* generateNewUserData: what an account holds of the binary plan and its
\* notifications; every account starts from initialBinaryData
Account(profileId, position) ==
    [profileId |-> profileId,
     notifications |-> SubSeq(initialNotificationsData, 1, randomSliceLength),
     matchingQueue |-> initialMatchingQueue,
     matchedPairs |-> initialMatchedPairs,
     pendingPairs |-> initialPendingPairs,
     currentUserPosition |-> position]

\* profile.id of an account, as a number: entrant 'bq_n' is n, and the
\* profile ids 'user_main' and 'user_admin' are the id of no entrant
ProfileId(id) == IF id = "user_main" THEN 101 ELSE 102

\* generateInitialDatabase: db.users, the main user at position 12 and the
\* administrator at a random position
generateInitialDatabase(adminPosition) ==
    [id \in {"user_main", "user_admin"} |->
        Account(ProfileId(id), IF id = "user_main" THEN 12 ELSE adminPosition)]

InitPayments ==
    /\ paymentsData = generateInitialPayments
    /\ pendingConfirmations = initialPendingConfirmationsData
    /\ disputes = <<>>
    /\ allUsers = adminUsersData
    /\ systemConfig = initialSystemConfig
    /\ modalPayment = NoPayment
    /\ timeouts = <<>>
    /\ now = StartTime
    /\ sweepPhase = 0
    /\ payLast = PaySnapshot("mount", "none", 0)
    /\ payHist = [edits |-> 0, submitted |-> 0, verifications |-> 0,
                  wentFailed |-> {},
                  rejectedAt |-> [id \in PaymentIds |-> 0]]

----------------------------------------------------------------------------

\* the binary state after construction, whatever the queue
InitBinary ==
    /\ matchedPairs = initialMatchedPairs
    /\ pendingPairs = initialPendingPairs
    /\ currentUserPosition = 12
    /\ sponsorData = initialSponsorData
    /\ prevIsQualifiedRef = QualifiedBy(initialSponsorData)
    /\ dirty = {}
    /\ last = [op |-> "mount",
               matchingQueue |-> matchingQueue,
               matchedPairs |-> initialMatchedPairs,
               pendingPairs |-> initialPendingPairs,
               currentUserPosition |-> 12,
               notifications |-> initialNotificationsData,
               transactionsData |-> initialTransactionsData,
               wasQualified |-> QualifiedBy(initialSponsorData),
               prevRef |-> QualifiedBy(initialSponsorData),
               winnerIndex |-> -1,
               winner |-> NoEntrant]
    /\ hist = [flips |-> 0, conversions |-> 0, start |-> matchingQueue]

Init ==
    /\ matchingQueue \in InitialQueues
    /\ InitBinary
    /\ effectQueue = <<"qualification", "queueSync">>
    /\ notifications = initialNotificationsData
    /\ transactionsData = initialTransactionsData
    /\ component = "Home"
    /\ InitPayments
    /\ db = generateInitialDatabase(Len(initialMatchingQueue))
    /\ currentUserId = "none"

----------------------------------------------------------------------------
(* handleQualifyForBinary: every direct becomes paid.  The button is only  *)
(* rendered while the participant is not qualified.                        *)

\* the button stays and takes the payments of the directs back
HandleQualifyForBinary_Toggle ==
    /\ Idle
    /\ sponsorData' = [i \in 1..Len(sponsorData) |->
                          [sponsorData[i] EXCEPT !.status =
                              IF isQualifiedForBinary THEN "pending" ELSE "paid"]]
    /\ effectQueue' = EffectsFor(IF QualifiedBy(sponsorData') # isQualifiedForBinary
                                 THEN {"isQualifiedForBinary"} ELSE {})
    /\ last' = Snapshot("qualify", -1, NoEntrant)
    /\ hist' = IF ~isQualifiedForBinary /\ QualifiedBy(sponsorData')
               THEN [hist EXCEPT !.flips = @ + 1] ELSE hist
    /\ UNCHANGED <<matchingQueue, matchedPairs, pendingPairs, currentUserPosition,
                   notifications, transactionsData, prevIsQualifiedRef, dirty,
                   payVars>>

HandleQualifyForBinary ==
    /\ Idle
    /\ ~isQualifiedForBinary
    /\ sponsorData' = [i \in 1..Len(sponsorData) |->
                          [sponsorData[i] EXCEPT !.status = "paid"]]
    /\ effectQueue' = EffectsFor(IF QualifiedBy(sponsorData') # isQualifiedForBinary
                                 THEN {"isQualifiedForBinary"} ELSE {})
    /\ last' = Snapshot("qualify", -1, NoEntrant)
    /\ hist' = IF ~isQualifiedForBinary /\ QualifiedBy(sponsorData')
               THEN [hist EXCEPT !.flips = @ + 1] ELSE hist
    /\ UNCHANGED <<matchingQueue, matchedPairs, pendingPairs, currentUserPosition,
                   notifications, transactionsData, prevIsQualifiedRef, dirty,
                   payVars>>

----------------------------------------------------------------------------
(* Effect: pay out the pending pairs upon qualification *)

\* the status is not rewritten
paidOutPairs_KeepStatus(pending) == pending

paidOutPairs(pending) ==
    [i \in 1..Len(pending) |-> [pending[i] EXCEPT !.status = "paid"]]

newTransactions(paid) ==
    [i \in 1..Len(paid) |->
        Transaction("binary", paid[i].pairNumber, paid[i].amount, "paid")]

\* the current flag is not tested
shouldPayOut_NoFlag == ~prevIsQualifiedRef /\ Len(pendingPairs) > 0

\* the ref is assigned before it is compared
shouldPayOut_RefFirst ==
    isQualifiedForBinary /\ ~isQualifiedForBinary /\ Len(pendingPairs) > 0

\* the condition of the effect
shouldPayOut ==
    isQualifiedForBinary /\ ~prevIsQualifiedRef /\ Len(pendingPairs) > 0

QualificationEffect ==
    /\ effectQueue # <<>>
    /\ Head(effectQueue) = "qualification"
    /\ IF shouldPayOut
       THEN LET totalPayout == SumAmounts(pendingPairs)
                paid == paidOutPairs(pendingPairs)
            IN  /\ notifications' =
                      <<Notification("income", "qualified_payout", totalPayout)>>
                      \o notifications
                /\ transactionsData' = newTransactions(paid) \o transactionsData
                /\ matchedPairs' = matchedPairs \o paid
                /\ pendingPairs' = <<>>
                /\ effectQueue' = NextEffects(dirty \cup {"pendingPairs"})
                /\ dirty' = NextDirty(dirty \cup {"pendingPairs"})
                /\ last' = Snapshot("convert", -1, NoEntrant)
                /\ hist' = [hist EXCEPT !.conversions = @ + 1]
       ELSE /\ effectQueue' = NextEffects(dirty)
            /\ dirty' = NextDirty(dirty)
            /\ last' = Snapshot("qualificationEffect", -1, NoEntrant)
            /\ UNCHANGED <<notifications, transactionsData, matchedPairs,
                           pendingPairs, hist>>
    /\ prevIsQualifiedRef' = isQualifiedForBinary
    /\ UNCHANGED <<matchingQueue, currentUserPosition, sponsorData, payVars>>

----------------------------------------------------------------------------
(* Effect: copy the qualification flag into the local entrant of the queue *)

QueueSyncEffect ==
    /\ effectQueue # <<>>
    /\ Head(effectQueue) = "queueSync"
    /\ matchingQueue' = [i \in 1..Len(matchingQueue) |->
                            IF matchingQueue[i].id = CurrentUserQueueId
                            THEN [matchingQueue[i] EXCEPT !.isQualified = isQualifiedForBinary]
                            ELSE matchingQueue[i]]
    /\ effectQueue' = NextEffects(dirty)
    /\ dirty' = NextDirty(dirty)
    /\ last' = Snapshot("queueSync", -1, NoEntrant)
    /\ UNCHANGED <<matchedPairs, pendingPairs, currentUserPosition, sponsorData,
                   notifications, transactionsData, prevIsQualifiedRef, hist,
                   payVars>>

----------------------------------------------------------------------------
(* handleProcessBinaryQueue *)

qualifiedUserFound(queue) == \E i \in 1..Len(queue) : queue[i].isQualified

firstQualifiedIndex(queue) == FindQualifiedIndex(queue)

\* queue[firstQualifiedIndex]
winnerOf(queue) == queue[firstQualifiedIndex(queue) + 1]

\* the skipped entrants are not put back
usersToRequeue_Discarded(queue) == <<>>

\* off by one: the entrant just ahead of the winner is lost
usersToRequeue_DropLast(queue) == JsSlice(queue, 0, firstQualifiedIndex(queue) - 1)

\* queue.slice(0, firstQualifiedIndex)
usersToRequeue(queue) == JsSlice(queue, 0, firstQualifiedIndex(queue))

\* off by one: the winner stays at the head
remainingQueueAfterWinner_KeepWinner(queue) ==
    JsSlice(queue, firstQualifiedIndex(queue), Len(queue))

\* queue.slice(firstQualifiedIndex + 1)
remainingQueueAfterWinner(queue) ==
    JsSlice(queue, firstQualifiedIndex(queue) + 1, Len(queue))

\* the entrants behind the winner are put back in reverse order
newQueue_Reversed(queue) ==
    LET rest == remainingQueueAfterWinner(queue)
    IN  [i \in 1..Len(rest) |-> rest[Len(rest) + 1 - i]] \o usersToRequeue(queue)

\* the skipped entrants keep the front
newQueue_SkippedFirst(queue) == usersToRequeue(queue) \o remainingQueueAfterWinner(queue)

\* [...remainingQueueAfterWinner, ...usersToRequeue]
newQueue(queue) == remainingQueueAfterWinner(queue) \o usersToRequeue(queue)

\* the positions are not reassigned
Renumber_Keep(queue) == queue

\* newQueue.map((user, index) => ({ ...user, queuePosition: index + 1 }))
Renumber(queue) ==
    [i \in 1..Len(queue) |-> [queue[i] EXCEPT !.queuePosition = i]]

updatedQueue(queue) == Renumber(newQueue(queue))

\* the pair is filed as pending
newMatch_Pending(matched, pending) ==
    [pairNumber |-> Len(matched) + Len(pending) + 1,
     amount |-> binaryAmount,
     status |-> "pending"]

\* the + 1 is forgotten
newMatch_OffByOne(matched, pending) ==
    [pairNumber |-> Len(matched) + Len(pending),
     amount |-> binaryAmount,
     status |-> "paid"]

newMatch(matched, pending) ==
    [pairNumber |-> Len(matched) + Len(pending) + 1,
     amount |-> binaryAmount,
     status |-> "paid"]

\* the winner's notification, then one for the local entrant if it was skipped
newNotifications(queue, match) ==
    LET w == winnerOf(queue)
        skippedSelf == SelectSeq(usersToRequeue(queue),
                                 LAMBDA u : u.id = CurrentUserQueueId)
    IN  << IF w.id = CurrentUserQueueId
           THEN Notification("income", "win_self", match.amount)
           ELSE Notification("income", "win_other", 0) >>
        \o [i \in 1..Len(skippedSelf) |-> Notification("system", "skipped", 0)]

NoQualifiedNotification == Notification("system", "no_qualified", 0)

NoQualifiedReports ==
    Len(SelectSeq(notifications, LAMBDA n : n = NoQualifiedNotification))

\* the rotation is applied although nobody is qualified
ProcessQueueNoQualified_Rotating ==
    /\ Idle
    /\ ~qualifiedUserFound(matchingQueue)
    /\ NoQualifiedReports < MaxNoQualified
    /\ notifications' = <<NoQualifiedNotification>> \o notifications
    /\ matchingQueue' = Renumber(JsSlice(matchingQueue, 1, Len(matchingQueue))
                                 \o JsSlice(matchingQueue, 0, 1))
    /\ last' = Snapshot("processQueueNone", -1, NoEntrant)
    /\ UNCHANGED <<matchedPairs, pendingPairs, currentUserPosition,
                   sponsorData, transactionsData, prevIsQualifiedRef,
                   effectQueue, dirty, hist,
                   payVars>>

ProcessQueueNoQualified ==
    /\ Idle
    /\ ~qualifiedUserFound(matchingQueue)
    /\ NoQualifiedReports < MaxNoQualified
    /\ notifications' = <<NoQualifiedNotification>> \o notifications
    /\ last' = Snapshot("processQueueNone", -1, NoEntrant)
    /\ UNCHANGED <<matchingQueue, matchedPairs, pendingPairs, currentUserPosition,
                   sponsorData, transactionsData, prevIsQualifiedRef,
                   effectQueue, dirty, hist,
                   payVars>>

\* the check reads the queue of the render before the last update, the
\* rotation the current queue
ProcessQueueMatch_StaleCheck ==
    /\ Idle
    /\ qualifiedUserFound(last.matchingQueue)
    /\ matchingQueue # <<>>
    /\ LET queue == matchingQueue
           k == firstQualifiedIndex(queue)
           rotated == Renumber(JsSlice(queue, k + 1, Len(queue))
                               \o JsSlice(queue, 0, k))
           currentUserNewPosition == PositionOfId(rotated, CurrentUserQueueId)
       IN  /\ notifications' =
                  <<Notification("income", "win_other", 0)>> \o notifications
           /\ matchingQueue' = rotated
           /\ currentUserPosition' = IF currentUserNewPosition > 0
                                     THEN currentUserNewPosition
                                     ELSE currentUserPosition
           /\ last' = Snapshot("processQueue", k, NoEntrant)
    /\ UNCHANGED <<matchedPairs, pendingPairs, sponsorData, transactionsData,
                   prevIsQualifiedRef, effectQueue, dirty, hist,
                   payVars>>

ProcessQueueMatch ==
    /\ Idle
    /\ qualifiedUserFound(matchingQueue)
    /\ LET queue == matchingQueue
           winner == winnerOf(queue)
           match == newMatch(matchedPairs, pendingPairs)
           currentUserNewPosition ==
               PositionOfId(updatedQueue(queue), CurrentUserQueueId)
       IN  /\ notifications' = newNotifications(queue, match) \o notifications
           /\ matchedPairs' = IF winner.id = CurrentUserQueueId
                              THEN matchedPairs \o <<match>>
                              ELSE matchedPairs
           /\ matchingQueue' = updatedQueue(queue)
           /\ currentUserPosition' = IF currentUserNewPosition > 0
                                     THEN currentUserNewPosition
                                     ELSE currentUserPosition
           /\ last' = Snapshot("processQueue", firstQualifiedIndex(queue), winner)
    /\ UNCHANGED <<pendingPairs, sponsorData, transactionsData, prevIsQualifiedRef,
                   effectQueue, dirty, hist,
                   payVars>>

HandleProcessBinaryQueue == ProcessQueueNoQualified \/ ProcessQueueMatch

----------------------------------------------------------------------------

Next ==
    \/ HandleQualifyForBinary
    \/ HandleProcessBinaryQueue
    \/ QualificationEffect
    \/ QueueSyncEffect

Spec == Init /\ [][Next]_vars

----------------------------------------------------------------------------
(* Payment lifecycle.  The repository holds it twice: in the Home          *)
(* component (src/Home.tsx), where every state update is a functional      *)
(* updater over the current state, and in the Dashboard of                 *)
(* src/unnamed/part_000, where a handler computes the new lists from the   *)
(* lists of the render it was created in and hands them to                 *)
(* onUpdateUserData, which merges them into the account record.  A click   *)
(* handler runs in the latest render, so it reads the current state; the   *)
(* callback of a setTimeout keeps the lists of the render of the click.    *)
(* `component' says which of the two is running.                           *)
(*                                                                         *)
(* The two sweeps are interval callbacks (every second); a step of a sweep *)
(* that finds nothing leaves the state as it is.  The callbacks of         *)
(* setTimeout all carry the same delay, so they run in the order they were *)
(* scheduled.  In the Dashboard both intervals are re-created by every     *)
(* render of App (onUpdateUserData is a dependency of their effects);      *)
(* sweepPhase counts the half seconds since then, in the specification     *)
(* that measures them (SpecSweep), and stays 0 elsewhere.                  *)

IsHome == component = "Home"

IsDashboard == component = "Dashboard"

\* PAYMENT_TIMER_DURATION (Home), paymentTimerDurationMs (Dashboard)
paymentTimerDuration ==
    IF IsDashboard THEN systemConfig.paymentTimerDuration
    ELSE PAYMENT_TIMER_DURATION

\* a state update renders App, which re-creates the Dashboard's intervals;
\* the payment-expiry interval of Home is created once
Rerendered == sweepPhase' = IF IsDashboard THEN 0 ELSE sweepPhase

\* prev.map(p => p.id === id ? update(p) : p)
MapPayment(payments, id, update(_)) ==
    [i \in 1..Len(payments) |->
        IF payments[i].id = id THEN update(payments[i]) ELSE payments[i]]

ModalClosed == modalPayment = NoPayment

\* the id of a confirmation made now
NewConfirmationId == 3 + payHist.submitted

ConfirmationIds == 1..(2 + MaxSubmissions)

\* the clock advances
Tick ==
    /\ Idle
    /\ now < MaxTime
    /\ now' = now + 1
    /\ UNCHANGED <<binVars, notifications, transactionsData, paymentsData,
                   pendingConfirmations, disputes, allUsers, systemConfig,
                   modalPayment, timeouts, sweepPhase, payLast, payHist>>

\* handleUpdatePayment(id, field, value) of the payment at index i; the
\* inputs of a payment card are rendered while the payment is unpaid and
\* report a value that differs from the one they show
UpdatePayment(i, field, value) ==
    /\ Idle
    /\ ModalClosed
    /\ paymentsData[i].status = "unpaid"
    /\ paymentsData[i][field] # value
    /\ paymentsData' = MapPayment(paymentsData, paymentsData[i].id,
           LAMBDA p : [p EXCEPT ![field] = value])
    /\ payLast' = PaySnapshot("updatePayment", paymentsData[i].id, 0)
    /\ Rerendered
    /\ UNCHANGED <<binVars, notifications, transactionsData,
                   pendingConfirmations, disputes, allUsers, systemConfig,
                   modalPayment, timeouts, now>>

\* the participant fills in a payment card, at most `edits' times
UpdatePaymentUpTo(edits) ==
    /\ payHist.edits < edits
    /\ payHist' = [payHist EXCEPT !.edits = @ + 1]
    /\ \E i \in 1..Len(paymentsData) :
         \/ UpdatePayment(i, "transactionId", "tx")
         \/ UpdatePayment(i, "proof", "proof")

HandleUpdatePayment == UpdatePaymentUpTo(MaxEdits)

\* PaymentCard: canSubmit of a payment paid by QR, bank or UPI
canSubmit(payment) == payment.transactionId # "" /\ payment.proof # NoProof

\* PaymentCard: canSubmit of a payment paid in crypto
canAutoVerify(payment) == payment.transactionId # ""

\* JoinTab.handleSubmitClick: the submit dialog opens on the payment as
\* rendered
HandleSubmitClick ==
    /\ Idle
    /\ ModalClosed
    /\ \E i \in 1..Len(paymentsData) :
         /\ paymentsData[i].status = "unpaid"
         /\ canSubmit(paymentsData[i])
         /\ modalPayment' = paymentsData[i]
    /\ UNCHANGED <<binVars, notifications, transactionsData, paymentsData,
                   pendingConfirmations, disputes, allUsers, systemConfig,
                   timeouts, now, sweepPhase, payLast, payHist>>

\* the dialog is cancelled
HandleCancelSubmit ==
    /\ Idle
    /\ ~ModalClosed
    /\ modalPayment' = NoPayment
    /\ UNCHANGED <<binVars, notifications, transactionsData, paymentsData,
                   pendingConfirmations, disputes, allUsers, systemConfig,
                   timeouts, now, sweepPhase, payLast, payHist>>

\* every payment but the submitted one becomes pending
submittedPayments_Others(payments, payment) ==
    [i \in 1..Len(payments) |->
        IF payments[i].id = payment.id THEN payments[i]
        ELSE [payments[i] EXCEPT !.status = "pending"]]

\* handleSubmitPayment: the payments after the submission
submittedPayments(payments, payment) ==
    MapPayment(payments, payment.id, LAMBDA p : [p EXCEPT !.status = "pending"])

\* handleSubmitPayment: the confirmations after the submission
submittedConfirmations(confirmations, payment, time) ==
    confirmations \o << Confirmation(NewConfirmationId, payment, time) >>

\* JoinTab.handleConfirmSubmit: handleSubmitPayment(modalPayment)
HandleSubmitPayment ==
    /\ Idle
    /\ ~ModalClosed
    /\ payHist.submitted < MaxSubmissions
    /\ paymentsData' = submittedPayments(paymentsData, modalPayment)
    /\ pendingConfirmations' =
           submittedConfirmations(pendingConfirmations, modalPayment, now)
    /\ modalPayment' = NoPayment
    /\ payLast' = PaySnapshot("submit", modalPayment.id, NewConfirmationId)
    /\ payHist' = [payHist EXCEPT !.submitted = @ + 1]
    /\ Rerendered
    /\ UNCHANGED <<binVars, notifications, transactionsData, disputes,
                   allUsers, systemConfig, timeouts, now>>

\* the timer callbacks of handleAutoVerify
Timeout(kind, payment) == [kind |-> kind, payment |-> payment]

\* handleAutoVerify: the payment is being verified, the outcome is due
HandleAutoVerify ==
    /\ Idle
    /\ ModalClosed
    /\ payHist.verifications < MaxVerifications
    /\ payHist' = [payHist EXCEPT !.verifications = @ + 1]
    /\ \E i \in 1..Len(paymentsData) :
         /\ paymentsData[i].status = "unpaid"
         /\ canAutoVerify(paymentsData[i])
         /\ paymentsData' = MapPayment(paymentsData, paymentsData[i].id,
                LAMBDA p : [p EXCEPT !.status = "verifying"])
         /\ timeouts' = Append(timeouts, Timeout("verify", paymentsData[i]))
         /\ payLast' = PaySnapshot("autoVerify", paymentsData[i].id, 0)
    /\ Rerendered
    /\ UNCHANGED <<binVars, notifications, transactionsData,
                   pendingConfirmations, disputes, allUsers, systemConfig,
                   modalPayment, now>>

\* the outcome of the verification: Math.random() > 0.1
VerifySucceeds ==
    /\ Idle
    /\ timeouts # <<>>
    /\ Head(timeouts).kind = "verify"
    /\ LET payment == Head(timeouts).payment
       IN  /\ paymentsData' = MapPayment(paymentsData, payment.id,
                  LAMBDA p : [p EXCEPT !.status = "confirmed"])
           /\ transactionsData' =
                  << Transaction(payment.type, 0, payment.amount, "confirmed") >>
                  \o transactionsData
           /\ payLast' = PaySnapshot("verifySuccess", payment.id, 0)
    /\ timeouts' = Tail(timeouts)
    /\ Rerendered
    /\ UNCHANGED <<binVars, notifications, pendingConfirmations, disputes,
                   allUsers, systemConfig, modalPayment, now,
                   payHist>>

VerifyFails ==
    /\ Idle
    /\ timeouts # <<>>
    /\ Head(timeouts).kind = "verify"
    /\ LET payment == Head(timeouts).payment
       IN  /\ paymentsData' = MapPayment(paymentsData, payment.id,
                  LAMBDA p : [p EXCEPT !.status = "failed"])
           /\ timeouts' = Append(Tail(timeouts), Timeout("reset", payment))
           /\ payLast' = PaySnapshot("verifyFailure", payment.id, 0)
           /\ payHist' = [payHist EXCEPT !.wentFailed = @ \cup {payment.id}]
    /\ Rerendered
    /\ UNCHANGED <<binVars, notifications, transactionsData,
                   pendingConfirmations, disputes, allUsers, systemConfig,
                   modalPayment, now>>

\* the second timer of a failed verification
VerifyReset ==
    /\ Idle
    /\ timeouts # <<>>
    /\ Head(timeouts).kind = "reset"
    /\ LET payment == Head(timeouts).payment
       IN  /\ paymentsData' = MapPayment(paymentsData, payment.id,
                  LAMBDA p : [p EXCEPT !.status = "unpaid",
                                       !.transactionId = ""])
           /\ payLast' = PaySnapshot("verifyReset", payment.id, 0)
    /\ timeouts' = Tail(timeouts)
    /\ Rerendered
    /\ UNCHANGED <<binVars, notifications, transactionsData,
                   pendingConfirmations, disputes, allUsers, systemConfig,
                   modalPayment, now, payHist>>

\* pendingConfirmations.find(c => c.id === confirmationId)
FindConfirmation(confirmations, confirmationId) ==
    confirmations[IndexOfId(confirmations, confirmationId)]

HasConfirmation(confirmations, confirmationId) ==
    IndexOfId(confirmations, confirmationId) # 0

\* prev.filter(c => c.id !== confirmationId)
WithoutConfirmation(confirmations, confirmationId) ==
    SelectSeq(confirmations, LAMBDA c : c.id # confirmationId)

MissingConfirmationIds ==
    { id \in ConfirmationIds : ~HasConfirmation(pendingConfirmations, id) }

\* a handler called with the id of no live confirmation returns at once
HandleMissingConfirmation ==
    /\ Idle
    /\ ModalClosed
    /\ MissingConfirmationIds # {}
    /\ UNCHANGED vars

\* the payment is left as it is
confirmedPayments_KeepStatus(payments, confirmation) == payments

\* handleConfirmPayment: the payments after the confirmation
confirmedPayments(payments, confirmation) ==
    MapPayment(payments, confirmation.paymentId,
               LAMBDA p : [p EXCEPT !.status = "confirmed"])

HandleConfirmPayment ==
    \/ HandleMissingConfirmation
    \/ /\ Idle
       /\ ModalClosed
       /\ \E confirmationId \in ConfirmationIds :
            /\ HasConfirmation(pendingConfirmations, confirmationId)
            /\ LET confirmation ==
                       FindConfirmation(pendingConfirmations, confirmationId)
               IN  /\ pendingConfirmations' =
                          WithoutConfirmation(pendingConfirmations, confirmationId)
                   /\ paymentsData' = confirmedPayments(paymentsData, confirmation)
                   /\ transactionsData' =
                          << Transaction(FirstWordLower(confirmation.type), 0,
                                         confirmation.amount, "confirmed") >>
                          \o transactionsData
                   /\ notifications' =
                          << Notification("payment_confirmed", "approved", 0) >>
                          \o notifications
                   /\ payLast' = PaySnapshot("confirm", confirmation.paymentId,
                                             confirmationId)
       /\ Rerendered
       /\ UNCHANGED <<binVars, disputes, allUsers, systemConfig, modalPayment,
                      timeouts, now, payHist>>

\* the timestamp is not renewed
rejectedPayment_OldTimestamp(payment, time) ==
    [payment EXCEPT !.status = "unpaid", !.transactionId = "",
                    !.proof = NoProof]

\* handleRejectPayment: the payment after the rejection
rejectedPayment(payment, time) ==
    [payment EXCEPT !.status = "unpaid", !.transactionId = "",
                    !.proof = NoProof, !.assignedTimestamp = time]

HandleRejectPayment ==
    \/ HandleMissingConfirmation
    \/ /\ Idle
       /\ ModalClosed
       /\ \E confirmationId \in ConfirmationIds :
            /\ HasConfirmation(pendingConfirmations, confirmationId)
            /\ LET confirmation ==
                       FindConfirmation(pendingConfirmations, confirmationId)
               IN  /\ pendingConfirmations' =
                          WithoutConfirmation(pendingConfirmations, confirmationId)
                   /\ paymentsData' = MapPayment(paymentsData, confirmation.paymentId,
                          LAMBDA p : rejectedPayment(p, now))
                   /\ payLast' = PaySnapshot("reject", confirmation.paymentId,
                                             confirmationId)
                   /\ payHist' = [payHist EXCEPT
                          !.rejectedAt[confirmation.paymentId] = now]
       /\ Rerendered
       /\ UNCHANGED <<binVars, notifications, transactionsData, disputes,
                      allUsers, systemConfig, modalPayment, timeouts, now>>

\* handleResolveDispute called with the id of no open dispute returns at once
HandleMissingDispute ==
    /\ Idle
    /\ ModalClosed
    /\ \E disputeId \in ConfirmationIds : ~HasConfirmation(disputes, disputeId)
    /\ UNCHANGED vars

\* the receiver wins, yet the payment is confirmed
resolvedPayment_AlwaysConfirmed(payment, favor, time) ==
    [payment EXCEPT !.status = "confirmed"]

\* handleResolveDispute: the payment after the resolution
resolvedPayment(payment, favor, time) ==
    IF favor = "sender"
    THEN [payment EXCEPT !.status = "confirmed"]
    ELSE [payment EXCEPT !.status = "unpaid", !.transactionId = "",
                         !.proof = NoProof, !.assignedTimestamp = time]

\* setAllUsers of handleResolveDispute; the Dashboard has no such update
resolvedUsers(users, dispute) ==
    IF IsHome
    THEN [u \in DOMAIN users |->
             IF u = dispute.receiverId THEN "active" ELSE users[u]]
    ELSE users

HandleResolveDispute ==
    \/ HandleMissingDispute
    \/ /\ Idle
       /\ ModalClosed
       /\ \E disputeId \in ConfirmationIds, favor \in {"sender", "receiver"} :
            /\ HasConfirmation(disputes, disputeId)
            /\ LET dispute == FindConfirmation(disputes, disputeId)
               IN  /\ disputes' = WithoutConfirmation(disputes, disputeId)
                   /\ paymentsData' = MapPayment(paymentsData, dispute.paymentId,
                          LAMBDA p : resolvedPayment(p, favor, now))
                   /\ allUsers' = resolvedUsers(allUsers, dispute)
                   /\ payLast' = PaySnapshot(
                          IF favor = "sender" THEN "resolveSender"
                          ELSE "resolveReceiver",
                          dispute.paymentId, disputeId)
       /\ Rerendered
       /\ UNCHANGED <<binVars, notifications, transactionsData,
                      pendingConfirmations, systemConfig, modalPayment,
                      timeouts, now, payHist>>

\* the sweep also takes pending payments
paymentIsOverdue_AnyStatus(p, time, duration) ==
    /\ p.status \in {"unpaid", "pending"}
    /\ p.assignedTimestamp # 0
    /\ p.type # "admin"
    /\ time > p.assignedTimestamp + duration

\* the sweep also takes the admin payment
paymentIsOverdue_Admin(p, time, duration) ==
    /\ p.status = "unpaid"
    /\ p.assignedTimestamp # 0
    /\ time > p.assignedTimestamp + duration

\* the condition of the payment-expiry sweep
paymentIsOverdue(p, time, duration) ==
    /\ p.status = "unpaid"
    /\ p.assignedTimestamp # 0
    /\ p.type # "admin"
    /\ time > p.assignedTimestamp + duration

expiredPayments(payments, time, duration) ==
    [i \in 1..Len(payments) |->
        IF paymentIsOverdue(payments[i], time, duration)
        THEN [payments[i] EXCEPT !.status = "expired"]
        ELSE payments[i]]

\* the interval callback of the payment-expiry effect
PaymentExpirySweep ==
    /\ Idle
    /\ expiredPayments(paymentsData, now, paymentTimerDuration) # paymentsData
    /\ paymentsData' = expiredPayments(paymentsData, now, paymentTimerDuration)
    /\ payLast' = PaySnapshot("expirePayments", "none", 0)
    /\ Rerendered
    /\ UNCHANGED <<binVars, notifications, transactionsData,
                   pendingConfirmations, disputes, allUsers, systemConfig,
                   modalPayment, timeouts, now, payHist>>

\* a confirmation is taken as soon as it exists
confirmationIsOverdue_Early(c, time, duration) == time >= c.submittedTimestamp

\* the condition of the confirmation-expiry sweep
confirmationIsOverdue(c, time, duration) ==
    time > c.submittedTimestamp + duration

expiredConfirmations(confirmations, time, duration) ==
    SelectSeq(confirmations, LAMBDA c : confirmationIsOverdue(c, time, duration))

\* every expired confirmation is disputed
sweptPayment_AlwaysDispute(payment, time) ==
    [payment EXCEPT !.status = "disputed"]

\* the payment of one expired confirmation
sweptPayment(payment, time) ==
    IF isMatrixPayment(payment)
    THEN [payment EXCEPT !.status = "disputed"]
    ELSE [payment EXCEPT !.status = "unpaid", !.transactionId = "",
                         !.proof = NoProof, !.assignedTimestamp = time]

\* the loop over the expired confirmations
RECURSIVE sweptPayments(_, _, _)
sweptPayments(payments, expired, time) ==
    IF expired = <<>> THEN payments
    ELSE LET paymentIndex == IndexOfId(payments, Head(expired).paymentId)
         IN  IF paymentIndex = 0
             THEN sweptPayments(payments, Tail(expired), time)
             ELSE sweptPayments(
                      [payments EXCEPT ![paymentIndex] =
                          sweptPayment(payments[paymentIndex], time)],
                      Tail(expired), time)

\* the confirmations the loop pushes to newDisputes
newDisputes(payments, expired) ==
    SelectSeq(expired, LAMBDA c :
        /\ IndexOfId(payments, c.paymentId) # 0
        /\ isMatrixPayment(payments[IndexOfId(payments, c.paymentId)]))

usersToPutOnHold(payments, expired) ==
    { payments[IndexOfId(payments, newDisputes(payments, expired)[k].paymentId)].receiverId :
        k \in 1..Len(newDisputes(payments, expired)) }

\* the interval callback of the confirmation-expiry effect
ConfirmationExpirySweep ==
    /\ Idle
    /\ LET expired == expiredConfirmations(pendingConfirmations, now,
                                           paymentTimerDuration)
       IN  /\ Len(expired) > 0
           /\ pendingConfirmations' =
                  SelectSeq(pendingConfirmations, LAMBDA c :
                      \A k \in 1..Len(expired) : expired[k].id # c.id)
           /\ paymentsData' = sweptPayments(paymentsData, expired, now)
           /\ disputes' = disputes \o newDisputes(paymentsData, expired)
           /\ allUsers' = [u \in DOMAIN allUsers |->
                              IF u \in usersToPutOnHold(paymentsData, expired)
                              THEN "on_hold" ELSE allUsers[u]]
           /\ payLast' = PaySnapshot("expireConfirmations", "none", 0)
    /\ Rerendered
    /\ UNCHANGED <<binVars, notifications, transactionsData, systemConfig,
                   modalPayment, timeouts, now, payHist>>

----------------------------------------------------------------------------
(* The handlers and the sweep that differ in the Dashboard                 *)
(* (src/unnamed/part_000).                                                 *)

\* the crypto verification is switched on and has its key and address
cryptoConfigured(config) ==
    /\ config.enableCryptoVerification
    /\ config.bscScanApiKey # ""
    /\ config.cryptoReceivingAddress # ""

\* a timer callback with the lists of the render that scheduled it
DashTimeout(kind, payment, payments, transactions, notes) ==
    [kind |-> kind, payment |-> payment, paymentsData |-> payments,
     transactionsData |-> transactions, notifications |-> notes]

ErrorNotification(msg) == Notification("error", msg, 0)

\* handleAutoVerify while the verification is not configured: only
\* addErrorNotification, which renders nothing until its timer runs
DashAutoVerifyMisconfigured(runs) ==
    /\ Idle
    /\ ModalClosed
    /\ payHist.verifications < runs
    /\ payHist' = [payHist EXCEPT !.verifications = @ + 1]
    /\ ~cryptoConfigured(systemConfig)
    /\ \E i \in 1..Len(paymentsData) :
         /\ paymentsData[i].status = "unpaid"
         /\ canAutoVerify(paymentsData[i])
         /\ timeouts' = Append(timeouts,
                DashTimeout("reset", paymentsData[i], paymentsData,
                            transactionsData,
                            <<ErrorNotification("misconfigured")>> \o notifications))
         /\ payLast' = PaySnapshot("autoVerifyRefused", paymentsData[i].id, 0)
    /\ UNCHANGED <<binVars, notifications, transactionsData, paymentsData,
                   pendingConfirmations, disputes, allUsers, systemConfig,
                   modalPayment, now, sweepPhase>>

\* handleAutoVerify with the verification configured
DashAutoVerifyConfigured(runs) ==
    /\ Idle
    /\ ModalClosed
    /\ payHist.verifications < runs
    /\ payHist' = [payHist EXCEPT !.verifications = @ + 1]
    /\ cryptoConfigured(systemConfig)
    /\ \E i \in 1..Len(paymentsData) :
         /\ paymentsData[i].status = "unpaid"
         /\ canAutoVerify(paymentsData[i])
         /\ paymentsData' = MapPayment(paymentsData, paymentsData[i].id,
                LAMBDA p : [p EXCEPT !.status = "verifying"])
         /\ timeouts' = Append(timeouts,
                DashTimeout("verify", paymentsData[i], paymentsData,
                            transactionsData, notifications))
         /\ payLast' = PaySnapshot("autoVerify", paymentsData[i].id, 0)
    /\ Rerendered
    /\ UNCHANGED <<binVars, notifications, transactionsData,
                   pendingConfirmations, disputes, allUsers, systemConfig,
                   modalPayment, now>>

\* handleAutoVerify, run at most `runs' times
DashAutoVerifyUpTo(runs) ==
    DashAutoVerifyMisconfigured(runs) \/ DashAutoVerifyConfigured(runs)

DashHandleAutoVerify == DashAutoVerifyUpTo(MaxVerifications)

\* the verification succeeds: the lists of the click, with the payment
\* confirmed and the transaction in front
DashVerifySucceeds ==
    /\ Idle
    /\ timeouts # <<>>
    /\ Head(timeouts).kind = "verify"
    /\ LET timer == Head(timeouts)
       IN  /\ paymentsData' = MapPayment(timer.paymentsData, timer.payment.id,
                  LAMBDA p : [p EXCEPT !.status = "confirmed"])
           /\ transactionsData' =
                  << Transaction(timer.payment.type, 0, timer.payment.amount,
                                 "confirmed") >>
                  \o timer.transactionsData
           /\ payLast' = PaySnapshot("verifySuccess", timer.payment.id, 0)
    /\ timeouts' = Tail(timeouts)
    /\ Rerendered
    /\ UNCHANGED <<binVars, notifications, pendingConfirmations, disputes,
                   allUsers, systemConfig, modalPayment, now, payHist>>

\* the verification fails: addErrorNotification of the click, nothing is
\* written until its timer runs
DashVerifyFails ==
    /\ Idle
    /\ timeouts # <<>>
    /\ Head(timeouts).kind = "verify"
    /\ LET timer == Head(timeouts)
       IN  /\ timeouts' = Append(Tail(timeouts),
                  DashTimeout("reset", timer.payment, timer.paymentsData,
                              timer.transactionsData,
                              <<ErrorNotification("failed")>> \o timer.notifications))
           /\ payLast' = PaySnapshot("verifyFailure", timer.payment.id, 0)
    /\ UNCHANGED <<binVars, notifications, transactionsData, paymentsData,
                   pendingConfirmations, disputes, allUsers, systemConfig,
                   modalPayment, now, sweepPhase, payHist>>

\* the timer of addErrorNotification
DashErrorReset ==
    /\ Idle
    /\ timeouts # <<>>
    /\ Head(timeouts).kind = "reset"
    /\ LET timer == Head(timeouts)
       IN  /\ notifications' = timer.notifications
           /\ paymentsData' = MapPayment(timer.paymentsData, timer.payment.id,
                  LAMBDA p : [p EXCEPT !.status = "unpaid",
                                       !.transactionId = ""])
           /\ payLast' = PaySnapshot("verifyReset", timer.payment.id, 0)
    /\ timeouts' = Tail(timeouts)
    /\ Rerendered
    /\ UNCHANGED <<binVars, transactionsData, pendingConfirmations, disputes,
                   allUsers, systemConfig, modalPayment, now, payHist>>

\* expiredConfirmations.find(ec => ec.paymentId === p.id)
HasExpiredConfirmation(expired, p) ==
    \E k \in 1..Len(expired) : expired[k].paymentId = p.id

FirstExpiredConfirmation(expired, p) ==
    expired[CHOOSE k \in 1..Len(expired) :
               /\ expired[k].paymentId = p.id
               /\ \A j \in 1..(k - 1) : expired[j].paymentId # p.id]

\* the disputes pushed while mapping the payments, in payment order
RECURSIVE dashNewDisputes(_, _)
dashNewDisputes(payments, expired) ==
    IF payments = <<>> THEN <<>>
    ELSE (IF HasExpiredConfirmation(expired, Head(payments))
          THEN <<FirstExpiredConfirmation(expired, Head(payments))>>
          ELSE <<>>)
         \o dashNewDisputes(Tail(payments), expired)

\* the interval callback of the Dashboard's confirmation-expiry effect
DashConfirmationExpirySweep ==
    /\ Idle
    /\ LET expired == expiredConfirmations(pendingConfirmations, now,
                                           paymentTimerDuration)
       IN  /\ Len(expired) > 0
           /\ pendingConfirmations' =
                  SelectSeq(pendingConfirmations, LAMBDA c :
                      \A k \in 1..Len(expired) : expired[k].id # c.id)
           /\ paymentsData' =
                  [i \in 1..Len(paymentsData) |->
                      IF HasExpiredConfirmation(expired, paymentsData[i])
                      THEN [paymentsData[i] EXCEPT !.status = "disputed"]
                      ELSE paymentsData[i]]
           /\ disputes' = disputes \o dashNewDisputes(paymentsData, expired)
           /\ payLast' = PaySnapshot("expireConfirmations", "none", 0)
    /\ Rerendered
    /\ UNCHANGED <<binVars, notifications, transactionsData, allUsers,
                   systemConfig, modalPayment, timeouts, now, payHist>>

----------------------------------------------------------------------------
(* The payment lifecycle of both components *)

\* an account as generateNewUserData makes it: each payment unpaid or
\* confirmed, no confirmation, no dispute, a prefix of the shipped ledger
\* and notifications; the configuration as shipped or as an administrator
\* saved it
DashPayments ==
    { [i \in 1..Len(generateInitialPayments) |->
          [generateInitialPayments[i] EXCEPT !.status = statuses[i]]] :
      statuses \in [1..Len(generateInitialPayments) -> {"unpaid", "confirmed"}] }

savedSystemConfig ==
    [initialSystemConfig EXCEPT !.enableCryptoVerification = TRUE,
                                !.bscScanApiKey = "key",
                                !.cryptoReceivingAddress = "address"]

DashAccount ==
    /\ matchingQueue = initialMatchingQueue
    /\ InitBinary
    /\ effectQueue = <<"qualification">>
    /\ component = "Dashboard"
    /\ notifications = SubSeq(initialNotificationsData, 1, randomSliceLength)
    /\ transactionsData = SubSeq(initialTransactionsData, 1, randomSliceLength)
    /\ paymentsData \in DashPayments
    /\ pendingConfirmations = <<>>
    /\ disputes = <<>>
    /\ allUsers = adminUsersData
    /\ systemConfig \in {initialSystemConfig, savedSystemConfig}
    /\ modalPayment = NoPayment
    /\ timeouts = <<>>
    /\ now = StartTime
    /\ sweepPhase = 0
    /\ payLast = PaySnapshot("mount", "none", 0)
    /\ payHist = [edits |-> 0, submitted |-> 0, verifications |-> 0,
                  wentFailed |-> {},
                  rejectedAt |-> [id \in PaymentIds |-> 0]]

\* the Dashboard of the main user
DashInit ==
    /\ DashAccount
    /\ db = generateInitialDatabase(Len(initialMatchingQueue))
    /\ currentUserId = "user_main"

\* the Home component with its shipped queue
HomeInit == Init /\ matchingQueue = initialMatchingQueue

PayInit == HomeInit \/ DashInit

PayNext ==
    \/ QualificationEffect
    \/ QueueSyncEffect
    \/ Tick
    \/ HandleUpdatePayment
    \/ HandleSubmitClick
    \/ HandleCancelSubmit
    \/ HandleSubmitPayment
    \/ HandleConfirmPayment
    \/ HandleRejectPayment
    \/ PaymentExpirySweep
    \/ IsHome /\ HandleAutoVerify
    \/ IsHome /\ VerifySucceeds
    \/ IsHome /\ VerifyFails
    \/ IsHome /\ VerifyReset
    \/ IsHome /\ ConfirmationExpirySweep
    \/ IsDashboard /\ DashHandleAutoVerify
    \/ IsDashboard /\ DashVerifySucceeds
    \/ IsDashboard /\ DashVerifyFails
    \/ IsDashboard /\ DashErrorReset
    \/ IsDashboard /\ DashConfirmationExpirySweep

\* the payment handlers of either component; the binary handlers are left
\* to Spec
SpecPay == PayInit /\ [][PayNext]_vars

\* the Dashboard with several timers of handleAutoVerify in flight: each
\* timer holds the lists of the render in which it was armed
TimersNext ==
    \/ QualificationEffect
    \/ Tick
    \/ UpdatePaymentUpTo(MaxTimerEdits)
    \/ HandleSubmitClick
    \/ HandleSubmitPayment
    \/ DashAutoVerifyUpTo(MaxTimers)
    \/ DashVerifySucceeds
    \/ DashVerifyFails
    \/ DashErrorReset
    \/ PaymentExpirySweep

SpecTimers == DashInit /\ [][TimersNext]_vars

----------------------------------------------------------------------------
(* The accounts of App (src/unnamed/part_000): db.users holds one UserData *)
(* per account, the Dashboard shows that of currentUserId and              *)
(* handleUpdateUserData merges an update into that account only.           *)

\* handleLogin with the e-mail and password of an account
HandleLogin ==
    /\ currentUserId = "none"
    /\ \E id \in DOMAIN db : currentUserId' = id
    /\ UNCHANGED <<matchingQueue, matchedPairs, pendingPairs,
                   currentUserPosition, sponsorData, notifications,
                   transactionsData, prevIsQualifiedRef, effectQueue, dirty,
                   last, hist, paymentsData, pendingConfirmations, disputes,
                   allUsers, systemConfig, modalPayment, timeouts, now,
                   sweepPhase, payLast, payHist, component, db>>

HandleLogout ==
    /\ currentUserId # "none"
    /\ currentUserId' = "none"
    /\ UNCHANGED <<matchingQueue, matchedPairs, pendingPairs,
                   currentUserPosition, sponsorData, notifications,
                   transactionsData, prevIsQualifiedRef, effectQueue, dirty,
                   last, hist, paymentsData, pendingConfirmations, disputes,
                   allUsers, systemConfig, modalPayment, timeouts, now,
                   sweepPhase, payLast, payHist, component, db>>

\* the update handleProcessBinaryQueue hands to onUpdateUserData
processedAccount(account) ==
    LET queue == account.matchingQueue
    IN  IF ~qualifiedUserFound(queue)
        THEN [account EXCEPT
                 !.notifications = <<NoQualifiedNotification>> \o @]
        ELSE LET winner == winnerOf(queue)
                 match == newMatch(account.matchedPairs, account.pendingPairs)
                 skipped == \E k \in 1..Len(usersToRequeue(queue)) :
                                usersToRequeue(queue)[k].id = account.profileId
                 currentUserNewPosition ==
                     PositionOfId(updatedQueue(queue), account.profileId)
             IN  [account EXCEPT
                     !.notifications =
                         << Notification("income", "win_other", 0) >>
                         \o (IF skipped
                             THEN << Notification("system", "skipped", 0) >>
                             ELSE <<>>)
                         \o @,
                     !.matchedPairs =
                         IF winner.id = account.profileId
                         THEN @ \o <<match>> ELSE @,
                     !.matchingQueue = updatedQueue(queue),
                     !.currentUserPosition =
                         IF currentUserNewPosition > 0
                         THEN currentUserNewPosition ELSE @]

\* handleProcessBinaryQueue in the session of currentUserId;
\* handleUpdateUserData writes db.users[currentUserId]
DashProcessBinaryQueue ==
    /\ currentUserId # "none"
    /\ Len(db[currentUserId].notifications) < randomSliceLength + MaxMatches
    /\ db' = [db EXCEPT ![currentUserId] = processedAccount(@)]
    /\ UNCHANGED <<matchingQueue, matchedPairs, pendingPairs,
                   currentUserPosition, sponsorData, notifications,
                   transactionsData, prevIsQualifiedRef, effectQueue, dirty,
                   last, hist, paymentsData, pendingConfirmations, disputes,
                   allUsers, systemConfig, modalPayment, timeouts, now,
                   sweepPhase, payLast, payHist, component, currentUserId>>

AccountsInit ==
    /\ DashAccount
    /\ db \in { generateInitialDatabase(position) :
                    position \in 1..Len(initialMatchingQueue) }
    /\ currentUserId = "none"

AccountsNext ==
    \/ HandleLogin
    \/ HandleLogout
    \/ DashProcessBinaryQueue

SpecAccounts == AccountsInit /\ [][AccountsNext]_vars

----------------------------------------------------------------------------
(* The binary plan in either component.  In the Dashboard                  *)
(* handleProcessBinaryQueue reads the queue, the pairs and the             *)
(* notifications of its render and hands the result to onUpdateUserData;   *)
(* the local participant is profile.id.                                    *)

\* the account the Dashboard renders
renderedAccount ==
    [profileId |-> ProfileId(currentUserId),
     notifications |-> notifications,
     matchingQueue |-> matchingQueue,
     matchedPairs |-> matchedPairs,
     pendingPairs |-> pendingPairs,
     currentUserPosition |-> currentUserPosition]

DashHandleProcessBinaryQueue ==
    /\ Idle
    /\ qualifiedUserFound(matchingQueue) \/ NoQualifiedReports < MaxNoQualified
    /\ LET updated == processedAccount(renderedAccount)
       IN  /\ notifications' = updated.notifications
           /\ matchingQueue' = updated.matchingQueue
           /\ matchedPairs' = updated.matchedPairs
           /\ currentUserPosition' = updated.currentUserPosition
    /\ last' = IF qualifiedUserFound(matchingQueue)
               THEN Snapshot("processQueue", firstQualifiedIndex(matchingQueue),
                             winnerOf(matchingQueue))
               ELSE Snapshot("processQueueNone", -1, NoEntrant)
    /\ UNCHANGED <<pendingPairs, sponsorData, transactionsData,
                   prevIsQualifiedRef, effectQueue, dirty, hist, payVars>>

BinaryInit == Init \/ DashInit

BinaryNext ==
    \/ HandleQualifyForBinary
    \/ component = "Home" /\ HandleProcessBinaryQueue
    \/ component = "Dashboard" /\ DashHandleProcessBinaryQueue
    \/ QualificationEffect
    \/ QueueSyncEffect

SpecBinary == BinaryInit /\ [][BinaryNext]_vars

\* handleUpdateSystemConfig: the administrator saves the configuration with
\* a payment timer of his choice; App renders with the new configuration
HandleUpdateSystemConfig ==
    /\ Idle
    /\ ModalClosed
    /\ \E duration \in 1..MaxTimerDuration :
         systemConfig' = [systemConfig EXCEPT !.paymentTimerDuration = duration]
    /\ payLast' = PaySnapshot("saveConfig", "none", 0)
    /\ Rerendered
    /\ UNCHANGED <<binVars, notifications, transactionsData, paymentsData,
                   pendingConfirmations, disputes, allUsers, modalPayment,
                   timeouts, now, payHist>>

\* the Dashboard while the administrator changes the configuration
ConfigNext ==
    \/ QualificationEffect
    \/ Tick
    \/ HandleUpdatePayment
    \/ HandleSubmitClick
    \/ HandleSubmitPayment
    \/ HandleUpdateSystemConfig
    \/ PaymentExpirySweep
    \/ DashConfirmationExpirySweep

SpecConfig == DashInit /\ [][ConfigNext]_vars

\* the confirmations and the disputes of either component: submissions,
\* the administrator's decisions and both sweeps, without the crypto
\* verification
DisputesNext ==
    \/ QualificationEffect
    \/ QueueSyncEffect
    \/ Tick
    \/ HandleUpdatePayment
    \/ HandleSubmitClick
    \/ HandleSubmitPayment
    \/ HandleConfirmPayment
    \/ HandleRejectPayment
    \/ HandleResolveDispute
    \/ PaymentExpirySweep
    \/ IsHome /\ ConfirmationExpirySweep
    \/ IsDashboard /\ DashConfirmationExpirySweep

SpecDisputes == PayInit /\ [][DisputesNext]_vars

----------------------------------------------------------------------------
(* Properties.  `last' holds the state the last step started from, so a    *)
(* property of one call is an invariant over (last, current state).        *)

SameEntrant(a, b) == a.id = b.id /\ a.isQualified = b.isQualified

CountId(queue, id) == Cardinality({i \in 1..Len(queue) : queue[i].id = id})

AllIds == 0..(15 + MaxQueue)

Matched == last.op = "processQueue"

\* C1: whenever the queue holds a qualified entrant, processQueue picks the
\* qualified entrant of smallest index, and every entrant ahead of it is
\* unqualified; it reports 'no qualified' only when nobody is qualified.
C1_WinnerIsFirstQualified ==
    /\ Matched =>
          LET q == last.matchingQueue
              k == last.winnerIndex
          IN  /\ k \in 0..(Len(q) - 1)
              /\ last.winner = q[k + 1]
              /\ q[k + 1].isQualified
              /\ \A j \in 1..k : ~q[j].isQualified
              /\ \A j \in 1..Len(q) : q[j].isQualified => j >= k + 1
    /\ last.op = "processQueueNone" =>
          \A j \in 1..Len(last.matchingQueue) : ~last.matchingQueue[j].isQualified

\* a run that skipped an unqualified head and left a qualified entrant behind
C1_Witness ==
    /\ Matched
    /\ last.winnerIndex >= 1
    /\ \E j \in (last.winnerIndex + 2)..Len(last.matchingQueue) :
           last.matchingQueue[j].isQualified

\* C2: after a run that picked index k of N entrants, the queue is the former
\* entrants k+1..N-1 in order followed by the former entrants 0..k-1 in order.
C2_NewOrder ==
    Matched =>
        LET q == last.matchingQueue
            k == last.winnerIndex
            n == Len(q)
        IN  /\ Len(matchingQueue) = n - 1
            /\ \A i \in 1..(n - 1 - k) : SameEntrant(matchingQueue[i], q[k + 1 + i])
            /\ \A i \in 1..k : SameEntrant(matchingQueue[n - 1 - k + i], q[i])

\* two entrants were skipped and two stood behind the winner
C2_Witness ==
    /\ Matched
    /\ last.winnerIndex >= 2
    /\ Len(last.matchingQueue) - 1 - last.winnerIndex >= 2

\* C3: in every state each entrant's queuePosition is its index + 1, so the
\* positions are exactly 1..N.
C3_PositionsContiguous ==
    \A i \in 1..Len(matchingQueue) : matchingQueue[i].queuePosition = i

\* a rotation moved entrants to other places and a qualification change
\* was copied into the queue
C3_Witness ==
    /\ Matched
    /\ last.winnerIndex >= 1
    /\ Len(matchingQueue) >= 3
    /\ hist.flips = 1

\* C4 as stated: the ids in the queue after a run are the ids before it.
C4_Original_IdsPreserved ==
    Matched =>
        \A id \in AllIds :
            CountId(matchingQueue, id) = CountId(last.matchingQueue, id)

\* C4 amended: a run that picks a winner keeps every entrant but the winner,
\* once each; a run without qualified entrant keeps all of them.
C4_IdsPreservedButWinner ==
    /\ Matched =>
          \A id \in AllIds :
              CountId(matchingQueue, id) =
                  CountId(last.matchingQueue, id)
                  - (IF id = last.winner.id THEN 1 ELSE 0)
    /\ last.op = "processQueueNone" =>
          \A id \in AllIds :
              CountId(matchingQueue, id) = CountId(last.matchingQueue, id)

\* a run with skipped entrants and entrants behind the winner
C4_Witness ==
    /\ Matched
    /\ last.winnerIndex >= 1
    /\ Len(last.matchingQueue) >= last.winnerIndex + 2
    /\ CountId(last.matchingQueue, last.winner.id) = 1

\* C5: a run that picks a winner shortens the queue by one and the winner's
\* id is gone from it.
C5_WinnerConsumed ==
    Matched =>
        /\ Len(matchingQueue) = Len(last.matchingQueue) - 1
        /\ \A i \in 1..Len(matchingQueue) : matchingQueue[i].id # last.winner.id

\* the example: [A unqualified, B qualified, C unqualified] became [C, A]
C5_Witness ==
    /\ Matched
    /\ last.matchingQueue =
          <<Entrant(1, FALSE, 1), Entrant(2, TRUE, 2), Entrant(3, FALSE, 3)>>
    /\ matchingQueue = <<Entrant(3, FALSE, 1), Entrant(1, FALSE, 2)>>

\* C6: a run on a queue without qualified entrant leaves queue, pairs and
\* currentUserPosition as they were and adds exactly one 'system' notification.
C6_NoQualifiedNoChange ==
    last.op = "processQueueNone" =>
        /\ matchingQueue = last.matchingQueue
        /\ matchedPairs = last.matchedPairs
        /\ pendingPairs = last.pendingPairs
        /\ currentUserPosition = last.currentUserPosition
        /\ Len(notifications) = Len(last.notifications) + 1
        /\ Head(notifications).type = "system"
        /\ Tail(notifications) = last.notifications

\* the run was repeated on a non-empty queue
C6_Witness ==
    /\ last.op = "processQueueNone"
    /\ Len(matchingQueue) >= 2
    /\ NoQualifiedReports >= 2

PairNumbers == [i \in 1..(Len(matchedPairs) + Len(pendingPairs)) |->
                  (matchedPairs \o pendingPairs)[i].pairNumber]

\* C7: a pair created by a run is numbered count(matchedPairs) +
\* count(pendingPairs) + 1 of the state it was created in, above every
\* number given before; the numbers of all pairs are pairwise distinct.
C7_PairNumbers ==
    /\ \A i, j \in 1..Len(PairNumbers) : i # j => PairNumbers[i] # PairNumbers[j]
    /\ (Matched /\ last.winner.id = CurrentUserQueueId) =>
          /\ Len(matchedPairs) = Len(last.matchedPairs) + 1
          /\ matchedPairs[Len(matchedPairs)].pairNumber =
                Len(last.matchedPairs) + Len(last.pendingPairs) + 1
          /\ \A i \in 1..Len(last.matchedPairs) :
                last.matchedPairs[i].pairNumber
                    < matchedPairs[Len(matchedPairs)].pairNumber
          /\ \A i \in 1..Len(last.pendingPairs) :
                last.pendingPairs[i].pairNumber
                    < matchedPairs[Len(matchedPairs)].pairNumber

\* the local entrant won after its pending pair had been converted
C7_Witness ==
    /\ Matched
    /\ last.winner.id = CurrentUserQueueId
    /\ hist.conversions = 1
    /\ Len(matchedPairs) = 3

\* C8: the pending pairs are converted once per false->true change of the
\* flag and not on a run of the effect that finds the flag already true;
\* after a conversion pendingPairs is empty.
C8_ConvertOncePerFlip ==
    /\ hist.conversions <= hist.flips
    /\ Idle => hist.conversions = hist.flips
    /\ last.op = "convert" =>
          /\ pendingPairs = <<>>
          /\ last.wasQualified
          /\ hist.flips = hist.conversions
    /\ (last.op = "qualificationEffect" /\ last.wasQualified /\ last.prevRef) =>
          /\ matchedPairs = last.matchedPairs
          /\ pendingPairs = last.pendingPairs

\* the effect ran again with the flag already true, after the conversion
C8_Witness ==
    /\ last.op = "qualificationEffect"
    /\ last.wasQualified
    /\ last.prevRef
    /\ hist.conversions = 1
    /\ hist.flips = 1

TotalAmount(pairs) ==
    LET f[i \in 0..Len(pairs)] == IF i = 0 THEN 0 ELSE f[i - 1] + pairs[i].amount
    IN  f[Len(pairs)]

\* C9: the conversion is one step that appends every pending pair to
\* matchedPairs as paid with its pairNumber and amount, empties pendingPairs,
\* adds one income notification carrying the pending total and one ledger
\* transaction per pair with the pair's amount; the number of pairs is kept.
C9_ConversionStep ==
    /\ last.op = "convert" =>
          LET old == last.pendingPairs
              n == Len(old)
              m == Len(last.matchedPairs)
          IN  /\ n > 0 /\ last.wasQualified /\ ~last.prevRef
              /\ pendingPairs = <<>>
              /\ Len(matchedPairs) = m + n
              /\ SubSeq(matchedPairs, 1, m) = last.matchedPairs
              /\ \A i \in 1..n :
                    /\ matchedPairs[m + i].status = "paid"
                    /\ matchedPairs[m + i].pairNumber = old[i].pairNumber
                    /\ matchedPairs[m + i].amount = old[i].amount
              /\ Len(notifications) = Len(last.notifications) + 1
              /\ Tail(notifications) = last.notifications
              /\ Head(notifications).type = "income"
              /\ Head(notifications).amount = TotalAmount(old)
              /\ Len(transactionsData) = Len(last.transactionsData) + n
              /\ SubSeq(transactionsData, n + 1, Len(transactionsData))
                    = last.transactionsData
              /\ \A i \in 1..n :
                    /\ transactionsData[i].amount = old[i].amount
                    /\ transactionsData[i].type = "binary"
                    /\ transactionsData[i].status = "paid"
              /\ TotalAmount(SubSeq(transactionsData, 1, n)) = TotalAmount(old)
              /\ Len(matchedPairs) + Len(pendingPairs) = m + n
    /\ (last.op = "qualify" /\ ~last.wasQualified /\ isQualifiedForBinary
          /\ pendingPairs # <<>>) =>
          (effectQueue # <<>> /\ Head(effectQueue) = "qualification")

\* the conversion ran on the shipped pending pair
C9_Witness ==
    /\ last.op = "convert"
    /\ last.pendingPairs = initialPendingPairs
    /\ Len(matchedPairs) = 2
    /\ Head(notifications).amount = 1000

----------------------------------------------------------------------------
(* The payment-expiry interval in time.  The interval callback runs one    *)
(* second after the interval was created, and every second from then on;   *)
(* sweepPhase is 0 when the interval was just created or has just run and  *)
(* 1 half a second later.  The participant may type into the cards         *)
(* without end.  Timers run when they are due and the clock advances:      *)
(* weak fairness of the half second, of the callback and of the clock.     *)

SweepHalfSecond ==
    /\ Idle
    /\ sweepPhase = 0
    /\ sweepPhase' = 1
    /\ UNCHANGED <<binVars, notifications, transactionsData, paymentsData,
                   pendingConfirmations, disputes, allUsers, systemConfig,
                   modalPayment, timeouts, now, payLast, payHist>>

\* the callback of the payment-expiry interval
PaymentExpiryInterval ==
    /\ Idle
    /\ sweepPhase = 1
    /\ sweepPhase' = 0
    /\ paymentsData' = expiredPayments(paymentsData, now, paymentTimerDuration)
    /\ payLast' = IF paymentsData' # paymentsData
                  THEN PaySnapshot("expirePayments", "none", 0) ELSE payLast
    /\ UNCHANGED <<binVars, notifications, transactionsData,
                   pendingConfirmations, disputes, allUsers, systemConfig,
                   modalPayment, timeouts, now, payHist>>

\* the participant types into, or clears, the transaction id of a card
TypeTransactionId ==
    /\ \E i \in 1..Len(paymentsData) : \E value \in {"", "tx"} :
         UpdatePayment(i, "transactionId", value)
    /\ UNCHANGED payHist

SweepNext ==
    \/ QualificationEffect
    \/ QueueSyncEffect
    \/ Tick
    \/ TypeTransactionId
    \/ SweepHalfSecond
    \/ PaymentExpiryInterval

SpecSweep ==
    /\ PayInit
    /\ [][SweepNext]_vars
    /\ WF_vars(QualificationEffect)
    /\ WF_vars(QueueSyncEffect)
    /\ WF_vars(Tick)
    /\ WF_vars(SweepHalfSecond)
    /\ WF_vars(PaymentExpiryInterval)

----------------------------------------------------------------------------
(* Properties of the payment lifecycle.  A property of one transition is   *)
(* an action property over a step of SpecPay; payLast names the operation  *)
(* of the last step.                                                       *)

PaymentIndexes == 1..Len(paymentsData)

\* the step is the handler op: submit, confirm and reject are each about a
\* confirmation id no earlier step of theirs was about
Did(op) == payLast' # payLast /\ payLast'.op = op

becomes(i, status) ==
    /\ paymentsData[i].status # status
    /\ paymentsData'[i].status = status

\* C11: a payment becomes expired only from unpaid, only when it is not the
\* admin payment and only when at least the timer duration has passed since
\* its assignedTimestamp; a pending, verifying, confirmed or disputed
\* payment is never moved to expired.
C11_ExpiredOnlyFromOverdueUnpaid ==
    [][\A i \in PaymentIndexes :
         becomes(i, "expired") =>
            /\ paymentsData[i].status = "unpaid"
            /\ paymentsData[i].type # "admin"
            /\ now - paymentsData[i].assignedTimestamp >= paymentTimerDuration]_vars

\* C12: the admin payment is never expired.
C12_AdminNeverExpired ==
    \A i \in PaymentIndexes :
        paymentsData[i].type = "admin" => paymentsData[i].status # "expired"

\* the sweep has run over an unpaid admin payment older than the timer
C12_Witness ==
    /\ payLast.op = "expirePayments"
    /\ \E i \in PaymentIndexes :
         /\ paymentsData[i].type = "admin"
         /\ paymentsData[i].status = "unpaid"
         /\ now > paymentsData[i].assignedTimestamp + paymentTimerDuration

\* C13: a payment other than the admin payment that is unpaid and older
\* than the timer duration does not remain so: the periodic sweep eventually
\* expires it, also while other state updates keep occurring.
C13_OverdueEventuallyExpired ==
    \A id \in PaymentIds :
        (\E i \in PaymentIndexes :
            /\ paymentsData[i].id = id
            /\ paymentIsOverdue(paymentsData[i], now, paymentTimerDuration))
        ~> (\E i \in PaymentIndexes :
               /\ paymentsData[i].id = id
               /\ paymentsData[i].status # "unpaid")

\* the confirmations a step removes
removedConfirmations ==
    SelectSeq(pendingConfirmations, LAMBDA c :
        ~HasConfirmation(pendingConfirmations', c.id))

\* the disputes a step adds
addedDisputes == SubSeq(disputes', Len(disputes) + 1, Len(disputes'))

\* C14: the confirmation-expiry sweep removes only confirmations as old as
\* the timer duration; for each one it removes, it files the confirmation as
\* a dispute and sets the payment to disputed if and only if the payment is
\* an upline payment, and otherwise files no dispute and resets the payment
\* to unpaid, without transaction id and proof, assigned now.
C14_ExpiredConfirmationByType ==
    [][payLast'.op = "expireConfirmations" =>
         \A k \in 1..Len(removedConfirmations) :
            LET c == removedConfirmations[k]
                i == IndexOfId(paymentsData, c.paymentId)
                filed == \E n \in 1..Len(addedDisputes) : addedDisputes[n] = c
            IN  /\ now - c.submittedTimestamp >= paymentTimerDuration
                /\ i # 0 =>
                     IF isMatrixPayment(paymentsData[i])
                     THEN /\ filed
                          /\ paymentsData'[i].status = "disputed"
                     ELSE /\ ~filed
                          /\ paymentsData'[i] = rejectedPayment(paymentsData[i], now)]_vars

\* C15: a submission of a payment that is unpaid sets that payment, and no
\* other, to pending and leaves its other fields alone; it adds, behind the
\* confirmations there were, exactly one confirmation: of that payment, with
\* the payment's amount and receiver, the submitted transaction id and the
\* time of the submission.
C15_SubmitUnpaid ==
    [][\A i \in PaymentIndexes :
         (/\ Did("submit")
          /\ paymentsData[i].id = payLast'.pid
          /\ paymentsData[i].status = "unpaid") =>
            /\ paymentsData' = [paymentsData EXCEPT ![i].status = "pending"]
            /\ Len(pendingConfirmations') = Len(pendingConfirmations) + 1
            /\ SubSeq(pendingConfirmations', 1, Len(pendingConfirmations))
                   = pendingConfirmations
            /\ LET c == pendingConfirmations'[Len(pendingConfirmations')]
               IN  /\ c.paymentId = paymentsData[i].id
                   /\ c.amount = paymentsData[i].amount
                   /\ c.receiverId = paymentsData[i].receiverId
                   /\ c.transactionId = modalPayment.transactionId
                   /\ c.submittedTimestamp = now
                   /\ ~HasConfirmation(pendingConfirmations, c.id)]_vars

\* a payment was submitted after the start, beside a confirmation that was
\* there and a payment that stays unpaid
C15_Witness ==
    /\ payLast.op = "submit"
    /\ now > StartTime
    /\ Len(pendingConfirmations) >= 2
    /\ pendingConfirmations[Len(pendingConfirmations)].id = payLast.cid
    /\ pendingConfirmations[Len(pendingConfirmations)].submittedTimestamp = now
    /\ \E i, j \in PaymentIndexes :
         /\ paymentsData[i].id = payLast.pid
         /\ paymentsData[i].status = "pending"
         /\ paymentsData[j].status = "unpaid"

\* C16: a submission is applied only to a payment that is unpaid at that
\* moment; applied to a payment in any other status it leaves the payments
\* as they are and creates no confirmation.
C16_SubmitOnlyUnpaid ==
    [][\A i \in PaymentIndexes :
         (/\ Did("submit")
          /\ paymentsData[i].id = payLast'.pid
          /\ paymentsData[i].status # "unpaid") =>
            /\ paymentsData' = paymentsData
            /\ pendingConfirmations' = pendingConfirmations]_vars

\* the live confirmations of a payment
ConfirmationsOf(id) ==
    { k \in 1..Len(pendingConfirmations) : pendingConfirmations[k].paymentId = id }

\* C17: in every reachable state a payment has at most one live confirmation.
C17_OneLiveConfirmation ==
    \A id \in PaymentIds : Cardinality(ConfirmationsOf(id)) <= 1

\* C18: a confirm step is about a live confirmation; it removes that
\* confirmation and no other, sets the payment it references to confirmed,
\* puts exactly one transaction, of the confirmation's amount and status
\* confirmed, on the ledger and adds exactly one payment_confirmed
\* notification.  (With the id of no live confirmation the handler returns
\* at once: HandleMissingConfirmation changes no variable.)
C18_Confirm ==
    [][Did("confirm") =>
         /\ HasConfirmation(pendingConfirmations, payLast'.cid)
         /\ LET c == FindConfirmation(pendingConfirmations, payLast'.cid)
            IN  /\ pendingConfirmations' =
                       SelectSeq(pendingConfirmations, LAMBDA x : x # c)
                /\ Len(pendingConfirmations') = Len(pendingConfirmations) - 1
                /\ \A i \in PaymentIndexes :
                       paymentsData[i].id = c.paymentId =>
                           paymentsData'[i].status = "confirmed"
                /\ Len(transactionsData') = Len(transactionsData) + 1
                /\ Tail(transactionsData') = transactionsData
                /\ Head(transactionsData').amount = c.amount
                /\ Head(transactionsData').status = "confirmed"
                /\ Len(notifications') = Len(notifications) + 1
                /\ Tail(notifications') = notifications
                /\ Head(notifications').type = "payment_confirmed"]_vars

\* a confirmation was confirmed while another one stays live
C18_Witness ==
    /\ payLast.op = "confirm"
    /\ pendingConfirmations # <<>>
    /\ ~HasConfirmation(pendingConfirmations, payLast.cid)
    /\ Head(notifications).type = "payment_confirmed"
    /\ Head(transactionsData).status = "confirmed"
    /\ \E i \in PaymentIndexes :
         /\ paymentsData[i].id = payLast.pid
         /\ paymentsData[i].status = "confirmed"

\* C19: a reject step is about a live confirmation; it removes that
\* confirmation and no other and resets the payment it references to unpaid
\* with no transaction id, no proof and the rejection time as its assigned
\* timestamp, the receiver and the amount as they were, the ledger and the
\* disputes untouched; and a payment that was rejected expires only when
\* more than a full timer duration has passed since its last rejection.
C19_Reject ==
    [][/\ Did("reject") =>
            /\ HasConfirmation(pendingConfirmations, payLast'.cid)
            /\ LET c == FindConfirmation(pendingConfirmations, payLast'.cid)
               IN  /\ pendingConfirmations' =
                          SelectSeq(pendingConfirmations, LAMBDA x : x # c)
                   /\ Len(pendingConfirmations') = Len(pendingConfirmations) - 1
                   /\ \A i \in PaymentIndexes :
                          paymentsData[i].id = c.paymentId =>
                              /\ paymentsData'[i].status = "unpaid"
                              /\ paymentsData'[i].transactionId = ""
                              /\ paymentsData'[i].proof = NoProof
                              /\ paymentsData'[i].assignedTimestamp = now
                              /\ paymentsData'[i].receiverId =
                                     paymentsData[i].receiverId
                              /\ paymentsData'[i].amount = paymentsData[i].amount
                   /\ transactionsData' = transactionsData
                   /\ disputes' = disputes
       /\ \A i \in PaymentIndexes :
            (/\ becomes(i, "expired")
             /\ payHist.rejectedAt[paymentsData[i].id] # 0) =>
                now' - payHist.rejectedAt[paymentsData[i].id]
                    > paymentTimerDuration]_vars

\* the payment the last handler or timer was about
LastPaymentIndexes ==
    { i \in PaymentIndexes : paymentsData[i].id = payLast'.pid }

\* the crypto verification can run: Home has no switch for it
verificationConfigured == IsDashboard => cryptoConfigured(systemConfig)

\* C20: with the verification configured, an auto-verify step takes an unpaid
\* payment to verifying; the success timer leaves the payment confirmed and
\* puts exactly one transaction on the ledger; the failure timer leaves the
\* payment failed; the reset timer leaves it unpaid with no transaction id,
\* and only a payment that went through failed is reset.
C20_AutoVerify ==
    [][verificationConfigured =>
         /\ Did("autoVerify") =>
              \A i \in LastPaymentIndexes :
                  /\ paymentsData[i].status = "unpaid"
                  /\ paymentsData'[i].status = "verifying"
         /\ Did("verifySuccess") =>
              /\ \A i \in LastPaymentIndexes :
                     paymentsData'[i].status = "confirmed"
              /\ Len(transactionsData') = Len(transactionsData) + 1
              /\ Tail(transactionsData') = transactionsData
              /\ Head(transactionsData').status = "confirmed"
         /\ Did("verifyFailure") =>
              \A i \in LastPaymentIndexes : paymentsData'[i].status = "failed"
         /\ Did("verifyReset") =>
              /\ payLast'.pid \in payHist.wentFailed
              /\ \A i \in LastPaymentIndexes :
                     /\ paymentsData'[i].status = "unpaid"
                     /\ paymentsData'[i].transactionId = ""]_vars

\* a timer of handleAutoVerify for the payment is still to run
ResolutionPending(id) ==
    \E k \in 1..Len(timeouts) : timeouts[k].payment.id = id

\* C21: in every reachable state a payment that is verifying has a timer
\* pending that will resolve it.
C21_VerifyingHasResolution ==
    \A i \in PaymentIndexes :
        paymentsData[i].status = "verifying" =>
            ResolutionPending(paymentsData[i].id)

\* the step runs the timer at the head of the queue and is of the kind op
TimerRan(op) ==
    /\ timeouts # <<>>
    /\ timeouts' = Tail(timeouts)
    /\ payLast'.op = op

\* how many error notifications the list holds
ErrorCount(notes) ==
    Cardinality({ k \in 1..Len(notes) : notes[k].type = "error" })

\* C22: while the crypto verification is not configured, a click on
\* auto-verify leaves every payment as it is, and the timer it arms adds
\* exactly one error notification and leaves the payment unpaid with no
\* transaction id.
C22_Misconfigured ==
    [][(IsDashboard /\ ~cryptoConfigured(systemConfig)) =>
         /\ (/\ payLast'.op = "autoVerifyRefused"
             /\ payHist'.verifications # payHist.verifications) =>
                paymentsData' = paymentsData
         /\ TimerRan("verifyReset") =>
              /\ ErrorCount(notifications') = ErrorCount(notifications) + 1
              /\ \A i \in LastPaymentIndexes :
                     /\ paymentsData'[i].status = "unpaid"
                     /\ paymentsData'[i].transactionId = ""]_vars

\* the step resolves a dispute in favour of the sender or of the receiver
Resolved(op) ==
    /\ Len(disputes') < Len(disputes)
    /\ payLast'.op = op

\* C23: a resolve step is about an open dispute; it removes that dispute and
\* no other and leaves every other payment alone; resolved for the sender the
\* payment of the dispute is confirmed, resolved for the receiver it is
\* unpaid with no transaction id, no proof and the time of the resolution as
\* its assigned timestamp.  (With the id of no open dispute the handler
\* returns at once: HandleMissingDispute changes no variable.)
C23_ResolveDispute ==
    [][(Resolved("resolveSender") \/ Resolved("resolveReceiver")) =>
         /\ HasConfirmation(disputes, payLast'.cid)
         /\ LET d == FindConfirmation(disputes, payLast'.cid)
            IN  /\ disputes' = SelectSeq(disputes, LAMBDA x : x # d)
                /\ Len(disputes') = Len(disputes) - 1
                /\ \A i \in PaymentIndexes :
                     IF paymentsData[i].id # d.paymentId
                     THEN paymentsData'[i] = paymentsData[i]
                     ELSE IF payLast'.op = "resolveSender"
                     THEN paymentsData'[i] =
                              [paymentsData[i] EXCEPT !.status = "confirmed"]
                     ELSE paymentsData'[i] =
                              [paymentsData[i] EXCEPT !.status = "unpaid",
                                   !.transactionId = "", !.proof = NoProof,
                                   !.assignedTimestamp = now]]_vars

\* a dispute was resolved for the receiver, some time after the start, and
\* its payment was given back with a typed transaction id taken off
C23_Witness ==
    /\ payLast.op = "resolveReceiver"
    /\ ~HasConfirmation(disputes, payLast.cid)
    /\ now > StartTime
    /\ \E i \in PaymentIndexes :
         /\ paymentsData[i].id = payLast.pid
         /\ paymentsData[i].status = "unpaid"
         /\ paymentsData[i].transactionId = ""
         /\ paymentsData[i].assignedTimestamp = now

\* C24: a disputed payment changes its status only in a step that resolves
\* a dispute about that payment.
C24_DisputedUntilResolved ==
    [][\A i \in PaymentIndexes :
         (/\ paymentsData[i].status = "disputed"
          /\ paymentsData'[i].status # "disputed") =>
            /\ Resolved("resolveSender") \/ Resolved("resolveReceiver")
            /\ payLast'.pid = paymentsData[i].id]_vars

\* assignedTimestamp + paymentTimerDurationMs: when the countdown of a
\* payment or of a confirmation ends
expiryMoment(timestamp, config) == timestamp + config.paymentTimerDuration

\* C25: a save of the configuration leaves every payment its amount, its
\* assigned timestamp and the moment at which it expires, and every
\* confirmation the moment at which it expires.
C25_SaveKeepsInFlight ==
    [][systemConfig' # systemConfig =>
         /\ \A i \in PaymentIndexes :
              /\ paymentsData'[i].amount = paymentsData[i].amount
              /\ paymentsData'[i].assignedTimestamp =
                     paymentsData[i].assignedTimestamp
              /\ expiryMoment(paymentsData'[i].assignedTimestamp, systemConfig')
                     = expiryMoment(paymentsData[i].assignedTimestamp,
                                    systemConfig)
         /\ pendingConfirmations' = pendingConfirmations
         /\ \A k \in 1..Len(pendingConfirmations) :
              expiryMoment(pendingConfirmations'[k].submittedTimestamp,
                           systemConfig')
                  = expiryMoment(pendingConfirmations[k].submittedTimestamp,
                                 systemConfig)]_vars

\* how often the entry occurs in the list
CountIn(list, entry) ==
    Cardinality({ k \in 1..Len(list) : list[k] = entry })

\* every entry of the list before the step is in the list after it
Kept(before, after) ==
    \A k \in 1..Len(before) :
        CountIn(after, before[k]) >= CountIn(before, before[k])

\* C26: no step takes a notification off the list.
C26_NotificationsKept == [][Kept(notifications, notifications')]_vars

\* C27: no step takes a transaction off the ledger.
C27_LedgerKept == [][Kept(transactionsData, transactionsData')]_vars

\* C28: all accounts hold the same binary matching queue.
C28_OneQueue ==
    \A a, b \in DOMAIN db : db[a].matchingQueue = db[b].matchingQueue

\* an open dispute names the participant as receiver
NamedInDispute(u) ==
    \E k \in 1..Len(disputes) : disputes[k].receiverId = u

\* C29: in every reachable state of Home a participant is on hold exactly
\* when an open dispute names them as receiver.
C29_OnHoldWhileDisputed ==
    IsHome =>
        \A u \in DOMAIN allUsers :
            allUsers[u] = "on_hold" <=> NamedInDispute(u)

\* the step runs a timer of handleAutoVerify, whatever the outcome
TimerFired ==
    /\ timeouts # <<>>
    /\ timeouts' # timeouts
    /\ \/ timeouts' = Tail(timeouts)
       \/ /\ Len(timeouts') = Len(timeouts)
          /\ payLast'.op = "verifyFailure"
          /\ SubSeq(timeouts', 1, Len(timeouts) - 1) = Tail(timeouts)

\* C30: a timer of handleAutoVerify changes at most the status and the
\* transaction id of the payment it was armed for, and no other payment.
C30_ResolutionTouchesOwnPayment ==
    [][TimerFired =>
         \A i \in PaymentIndexes :
             IF paymentsData[i].id = Head(timeouts).payment.id
             THEN paymentsData'[i] =
                      [paymentsData[i] EXCEPT
                          !.status = paymentsData'[i].status,
                          !.transactionId = paymentsData'[i].transactionId]
             ELSE paymentsData'[i] = paymentsData[i]]_vars
----------------------------------------------------------------------------
(* The binary queue in either component *)

QueueIds(queue) == [i \in 1..Len(queue) |-> queue[i].id]

C32_QualifiedWinInOrder ==
    [][\A i, j \in 1..Len(matchingQueue) :
          (/\ i < j
           /\ matchingQueue[i].isQualified
           /\ matchingQueue[j].isQualified)
          => LET x == PositionOfId(matchingQueue', matchingQueue[i].id)
                 y == PositionOfId(matchingQueue', matchingQueue[j].id)
             IN  /\ y = 0 => x = 0
                 /\ (x > 0 /\ y > 0) => x < y]_vars

\* a run skipped an unqualified entrant and left two qualified entrants,
\* after the local entrant qualified
C32_Witness ==
    /\ Matched
    /\ last.winnerIndex >= 1
    /\ \E i, j \in 1..Len(matchingQueue) :
           i < j /\ matchingQueue[i].isQualified /\ matchingQueue[j].isQualified
    /\ \E i \in 1..Len(matchingQueue) :
           matchingQueue[i].id = CurrentUserQueueId /\ matchingQueue[i].isQualified

\* the entrants of a queue with the given flag, as a set of ids
IdsWith(queue, flag) ==
    {queue[i].id : i \in {k \in 1..Len(queue) : queue[k].isQualified = flag}}

\* runs that picked a winner, counted by the winner's notification
Wins ==
    Len(SelectSeq(notifications, LAMBDA n : n.msg \in {"win_self", "win_other"}))

\* the flag of the local participant was never copied into the queue anew
NoQualificationChange == component = "Home" => hist.flips = 0

\* C33: from a queue with q qualified entrants, and without qualification
\* change, the runs pick a winner at most q times; each win shortens the
\* queue by one and no unqualified entrant leaves it; a run reports 'no
\* qualified users' only after q wins, and after q wins the queue holds
\* exactly the entrants that were unqualified at the start, so every later
\* run reports again.
C33_WinsThenNoneForever ==
    NoQualificationChange =>
        LET q == Cardinality(IdsWith(hist.start, TRUE))
        IN  /\ Wins <= q
            /\ Len(matchingQueue) = Len(hist.start) - Wins
            /\ IdsWith(hist.start, FALSE) \subseteq IdsWith(matchingQueue, FALSE)
            /\ last.op = "processQueueNone" => Wins = q
            /\ Wins = q =>
                  /\ ~qualifiedUserFound(matchingQueue)
                  /\ IdsWith(matchingQueue, FALSE) = IdsWith(hist.start, FALSE)
                  /\ Len(matchingQueue) = Cardinality(IdsWith(hist.start, FALSE))

\* the report was repeated after every qualified entrant of a queue with
\* two or more of them had won, unqualified entrants having been skipped
C33_Witness ==
    /\ NoQualificationChange
    /\ last.op = "processQueueNone"
    /\ NoQualifiedReports >= 2
    /\ Wins >= 2
    /\ Wins = Cardinality(IdsWith(hist.start, TRUE))
    /\ ~hist.start[1].isQualified
    /\ Len(matchingQueue) >= 2

\* the id by which the component recognises the local participant in the
\* queue
LocalEntrantId ==
    IF component = "Home" THEN CurrentUserQueueId ELSE ProfileId(currentUserId)

\* C34: a run that picks a winner appends exactly one pair, of status paid,
\* to matchedPairs if the winner is the local participant, and leaves
\* matchedPairs alone otherwise; no run changes pendingPairs or the ledger.
C34_MatchOnlyForLocalWinner ==
    /\ Matched =>
          /\ IF last.winner.id = LocalEntrantId
             THEN /\ Len(matchedPairs) = Len(last.matchedPairs) + 1
                  /\ SubSeq(matchedPairs, 1, Len(last.matchedPairs))
                         = last.matchedPairs
                  /\ matchedPairs[Len(matchedPairs)].status = "paid"
             ELSE matchedPairs = last.matchedPairs
          /\ pendingPairs = last.pendingPairs
          /\ transactionsData = last.transactionsData
    /\ last.op = "processQueueNone" =>
          /\ pendingPairs = last.pendingPairs
          /\ transactionsData = last.transactionsData

\* the local participant won a run
C34_Witness ==
    /\ Matched
    /\ last.winner.id = LocalEntrantId
    /\ Len(matchedPairs) = Len(last.matchedPairs) + 1
    /\ Len(transactionsData) = Len(last.transactionsData)

\* the open disputes about a payment
DisputesOf(id) == {k \in 1..Len(disputes) : disputes[k].paymentId = id}

\* C35: in every reachable state a payment is disputed exactly when one
\* open dispute, and no more, refers to it.
C35_DisputedHasOneDispute ==
    \A i \in PaymentIndexes :
        paymentsData[i].status = "disputed"
            <=> Cardinality(DisputesOf(paymentsData[i].id)) = 1

\* C36: in every reachable state every live confirmation refers to a pending
\* payment and every pending payment has a live confirmation.
C36_ConfirmationsMatchPending ==
    /\ \A k \in 1..Len(pendingConfirmations) :
          \E i \in PaymentIndexes :
              /\ paymentsData[i].id = pendingConfirmations[k].paymentId
              /\ paymentsData[i].status = "pending"
    /\ \A i \in PaymentIndexes :
          paymentsData[i].status = "pending"
              => ConfirmationsOf(paymentsData[i].id) # {}

\* C37: confirmed is terminal: no step changes the status of a confirmed
\* payment.
C37_ConfirmedIsTerminal ==
    [][\A i \in PaymentIndexes :
          paymentsData[i].status = "confirmed"
              => paymentsData'[i].status = "confirmed"]_vars

\* C38: the qualification flag is monotone: no step takes a qualified
\* participant back to unqualified, and the pending pairs are converted at
\* most once.
C38_QualifiedForGood ==
    [][/\ QualifiedBy(sponsorData) => QualifiedBy(sponsorData')
       /\ hist'.conversions <= 1]_vars

\* the participant qualified, the pending pair was paid out, and a run of
\* the queue followed
C38_Witness ==
    /\ isQualifiedForBinary
    /\ hist.flips = 1
    /\ hist.conversions = 1
    /\ last.op \in {"processQueue", "processQueueNone"}
    /\ pendingPairs = <<>>

\* C39: whenever a run of the queue can start, the entry of the local
\* participant ('bq_5', John Doe at position 12, which is the main user of
\* either component), if the queue holds it, carries the participant's
\* qualification flag.
C39_LocalEntryCarriesFlag ==
    Idle =>
        \A i \in 1..Len(matchingQueue) :
            matchingQueue[i].id = CurrentUserQueueId
                => matchingQueue[i].isQualified = isQualifiedForBinary
====
